---- MODULE Spec2Model ----
(***************************************************************************)
(* Model of the C-R-G request pipeline of the training chatbot:            *)
(* load_context -> extract_principles -> generate_routine -> save_routine, *)
(* the two legacy shortcut nodes, the error handler, and the files the     *)
(* nodes read and write.                                                   *)
(*                                                                         *)
(* Text is modelled as a sequence of tokens.  A token is a record          *)
(* [txt, caps]: txt is the lower-case text of the fragment and caps tells  *)
(* which capitalisation the source uses (0 = already lower case), so that  *)
(* str.lower() is a real conversion and "key in text" is a contiguous      *)
(* sub-sequence test.  Non-ASCII characters of the source are written in   *)
(* ASCII ("[X]" for the cross mark, "[OK]" for the check mark).            *)
(***************************************************************************)
EXTENDS Integers, Sequences, FiniteSets, TLC

VARIABLES
    pc,            \* node (or point inside a node) that runs next
    state,         \* the GraphState threaded through the graph
    users_dir,     \* USERS_DIR: user_id -> content of {user_id}.json
    backups,       \* USERS_DIR: contents of the {user_id}.json.<ts>.backup files
    historial_dir, \* DATA_DIR/historial: user_id -> content of {user_id}.json
    current_user_context, \* tools._base._current_user_context ("" is None)
    loc,           \* local variables of the node that is running
    trace          \* nodes entered so far in this run, in order

vars == <<pc, state, users_dir, backups, historial_dir, current_user_context, loc, trace>>

----------------------------------------------------------------------------
(* Bounds of the model *)

\* Sessions of a generated routine
MaxSesiones == 2
\* Exercises of a generated routine, over all its sessions
MaxEjercicios == 2
\* Entries of a stored history file
MaxHistorial == 2
\* Records of a history file handed to the query on its own: more than the
\* 7 the query shows
MaxQueryHistorial == 8
\* Pieces of a line typed at the prompt
MaxInputTokens == 3
\* Invocations of the graph in one session of the command line
MaxTurns == 2

----------------------------------------------------------------------------
(* Values *)

None == [kind |-> "None"]
Absent == [kind |-> "absent"]
IntV(n) == [kind |-> "int", n |-> n]

L(s) == [txt |-> s, caps |-> 0]
U(s) == [txt |-> s, caps |-> 1]

Str(toks) == [kind |-> "str", toks |-> toks]

lower(toks) == [i \in 1..Len(toks) |-> [toks[i] EXCEPT !.caps = 0]]

\* Python's `a in b` on strings
IsSubstring(a, b) ==
    \E i \in 0..(Len(b) - Len(a)) :
        \A j \in 1..Len(a) : b[i + j] = a[j]

Truthy(v) ==
    CASE v.kind = "None" -> FALSE
      [] v.kind = "absent" -> FALSE
      [] v.kind = "str" -> v.toks # <<>>
      [] OTHER -> TRUE

UserIds == {"u1"}
VALID_REQUEST_TYPES == <<"crear_rutina", "registrar_ejercicio", "consultar_historial">>
RequestTypes == {"crear_rutina", "registrar_ejercicio", "consultar_historial", "unknown"}

SeqToSet(s) == {s[i] : i \in 1..Len(s)}

SeqsUpTo(S, n) == UNION {[1..k -> S] : k \in 0..n}

----------------------------------------------------------------------------
(* Profile documents and files *)

T_OLD == Str(<<L("2025-01-01t00:00:00")>>)
T_NOW == Str(<<L("2025-06-01t12:00:00")>>)
T_GEN == Str(<<L("2025-06-01t11:59:58")>>)

Dict(d) == [kind |-> "dict", duracion_sesion_min |-> d]

PreferenciasLogistica ==
    {Absent, None, Dict(Absent), Dict(IntV(45)), Dict(IntV(90))}

OldRutina ==
    [kind |-> "dict", nombre |-> "Rutina anterior", sesiones |-> <<>>,
     fecha_creacion |-> T_OLD]

ProfileDocs ==
    {[kind |-> "dict", name |-> Str(<<U("test user")>>),
      level |-> lv, objetivo |-> ob, preferencias_logistica |-> pl,
      rutina_activa |-> old[1], updated_at |-> old[2]] :
        lv \in {Absent, Str(<<L("intermedio")>>)},
        ob \in {Absent, Str(<<L("hipertrofia")>>)},
        pl \in PreferenciasLogistica,
        old \in {<<Absent, Absent>>, <<OldRutina, T_OLD>>}}

FileAbsent == [kind |-> "absent"]
TextFile(fmt, doc) == [kind |-> "text", fmt |-> fmt, doc |-> doc]
Garbage(why) == [kind |-> "garbage", why |-> why]

ProfileFiles ==
    {FileAbsent, Garbage("corrupt")} \cup {TextFile("authored", d) : d \in ProfileDocs}

\* json.load / json.loads: the document of a well-formed file
IsJson(content) == content.kind = "text"
json_loads(content) == content.doc

\* json.dump(doc, f, indent=2, ensure_ascii=False)
json_dump(doc) == TextFile("indent2", doc)

----------------------------------------------------------------------------
(* History records *)

HistEntry(ts, uid, ej, s, r, p) ==
    [timestamp |-> ts, user_id |-> uid, ejercicio |-> ej, series |-> s,
     repeticiones |-> r, peso_kg |-> p]

OldEntries ==
    {HistEntry(T_OLD, "u1", "sentadilla", 5, 5, 100),
     HistEntry(T_OLD, "u1", "press banca", 3, 10, 80)}

HistFiles ==
    {FileAbsent, Garbage("corrupt")}
        \cup {TextFile("indent2", h) : h \in SeqsUpTo(OldEntries, MaxHistorial)}

EjercicioEstructurado ==
    {[ejercicio |-> "sentadilla", series |-> 5, repeticiones |-> 5, peso_kg |-> 100],
     [ejercicio |-> "lagartijas", series |-> 1, repeticiones |-> 50, peso_kg |-> 0]}

----------------------------------------------------------------------------
(* Principles and routines (rag/models.py) *)

NoneStr == "<None>"

ECI == {[nombre_ejercicio |-> "Puente de Gluteo"]}

PrincipiosExtraidos ==
    {[kind |-> "PrincipiosExtraidos", intensidad_RIR |-> rir, cadencia_tempo |-> tp,
      ECI_recomendados |-> eci, citas_fuente |-> ci] :
        rir \in {"1-2", NoneStr}, tp \in {"3:0:1:1", NoneStr},
        eci \in SeqsUpTo(ECI, 1), ci \in SeqsUpTo({"Pagina 138 (Tabla 20)"}, 1)}
    \ {p \in [kind : {"PrincipiosExtraidos"}, intensidad_RIR : {NoneStr},
              cadencia_tempo : {NoneStr}, ECI_recomendados : SeqsUpTo(ECI, 1),
              citas_fuente : SeqsUpTo({"Pagina 138 (Tabla 20)"}, 1)] : TRUE}

Ejercicio ==
    {[nombre |-> "Sentadilla", tipo |-> "principal", RIR |-> "1-2", tempo |-> "3:0:1:1"],
     [nombre |-> "Sentadilla", tipo |-> "principal", RIR |-> "3-4", tempo |-> "3:0:1:1"],
     [nombre |-> "Sentadilla", tipo |-> "principal", RIR |-> "1-2", tempo |-> "2:0:2:0"],
     [nombre |-> "Puente de Gluteo", tipo |-> "ECI", RIR |-> "3-4", tempo |-> "2:0:2:0"],
     [nombre |-> "Puente de Gluteo", tipo |-> "accesorio", RIR |-> "3-4", tempo |-> "2:0:2:0"]}

Sesion ==
    {[ejercicios |-> ej, duracion_estimada_min |-> d] :
        ej \in SeqsUpTo(Ejercicio, MaxEjercicios), d \in {60, 90}}

\* The lists of n sessions holding at most `budget` exercises in all; the
\* sessions before the last are estimated at 60 minutes, the last at 60 or 90
RECURSIVE Sesiones(_, _)
Sesiones(n, budget) ==
    IF n = 0 THEN {<<>>}
    ELSE UNION {{<<sesion>> \o rest :
                    rest \in Sesiones(n - 1, budget - Len(sesion.ejercicios))} :
                sesion \in {x \in Sesion :
                    /\ Len(x.ejercicios) <= budget
                    /\ (n > 1 => x.duracion_estimada_min = 60)}}

RutinaActiva ==
    {[kind |-> "RutinaActiva", nombre |-> "Rutina Personalizada", sesiones |-> ss,
      fecha_creacion |-> T_GEN] :
        ss \in UNION {Sesiones(n, MaxEjercicios) : n \in 0..MaxSesiones}}

\* RutinaActiva.model_dump(mode='json'): the object as a plain JSON dict
model_dump(obj) == [obj EXCEPT !.kind = "dict"]

----------------------------------------------------------------------------
(* GraphState (agents/graph_state.py) *)

create_initial_state(user_id, request_type) ==
    [user_id |-> user_id,
     request_type |-> request_type,
     user_message |-> None,
     perfil_usuario |-> None,
     preferencias_logistica |-> None,
     principios_libro |-> None,
     rutina_final |-> None,
     step_completed |-> "",
     error |-> None,
     debug_info |-> None,
     respuesta_usuario |-> <<>>]

\* is_state_valid: <<is_valid, error_message>>
is_state_valid(st) ==
    IF st.user_id = "" THEN <<FALSE, "user_id es requerido">>
    ELSE IF st.request_type = "" THEN <<FALSE, "request_type es requerido">>
    ELSE IF Truthy(st.error) /\ st.step_completed # "error"
         THEN <<FALSE, "Estado inconsistente: hay error pero step_completed no es 'error'">>
    ELSE <<TRUE, "None">>

UserMessages == {Str(<<L("anota 5x5 de sentadilla con 100kg")>>)}

NoLocals == [node |-> "none"]

\* Messages of the exceptions the environment raises
IOErrors == {<<L("[errno 13]"), U("permission denied")>>,
             <<L("[errno 28]"), U("no space left on device")>>}
JSONDecodeErrors == {<<U("expecting value: line 1 column 1 (char 0)")>>}

Init ==
    \E uid \in UserIds \cup {""}, rt \in RequestTypes,
       prof \in ProfileFiles, hist \in HistFiles :
        /\ (rt \notin {"registrar_ejercicio", "consultar_historial"} => hist = FileAbsent)
        /\ \E msg \in (IF rt = "registrar_ejercicio" THEN UserMessages \cup {None}
                       ELSE {None}) :
              state = [create_initial_state(uid, rt) EXCEPT !.user_message = msg]
        /\ users_dir = [u \in UserIds |-> prof]
        /\ backups = {}
        /\ historial_dir = [u \in UserIds |-> hist]
        /\ current_user_context = ""
        /\ pc = "load_context"
        /\ loc = NoLocals
        /\ trace = <<>>

----------------------------------------------------------------------------
(* Node: load_context (agents/nodes/load_context.py) *)

Fail(st, err, step) == [st EXCEPT !.error = Str(err), !.step_completed = step]

\* ', '.join(names)
Join(names) ==
    [i \in 1..(2 * Len(names) - 1) |->
        IF i % 2 = 1 THEN L(names[(i + 1) \div 2]) ELSE L(", ")]

\* required_fields reduced to ["level"]
missing_fields_mut(user_profile) ==
    SelectSeq(<<"level">>, LAMBDA f : user_profile.level = Absent)

missing_fields(user_profile) ==
    SelectSeq(<<"level", "objetivo">>,
              LAMBDA f : IF f = "level" THEN user_profile.level = Absent
                         ELSE user_profile.objetivo = Absent)

\* load_context without the request_type validation of lines 33-41
load_context_result_mut(st, file, open_error) ==
    LET user_id == st.user_id
    IN  IF user_id = ""
        THEN Fail(st, <<U("user id es requerido en el estado inicial.")>>,
                  "load_context_error")
        ELSE IF file.kind = "absent"
        THEN Fail(st, <<U("usuario '"), L(user_id), L("' "), L("no encontrado"),
                        L(" en "), U("users_dir")>>, "load_context_error")
        ELSE IF open_error # <<>>
        THEN Fail(st, <<U("error inesperado cargando perfil de '"), L(user_id), L("': ")>>
                          \o open_error, "load_context_error")
        ELSE IF ~IsJson(file)
        THEN Fail(st, <<U("archivo corrupto"), L(" para usuario '"), L(user_id), L("': ")>>
                          \o (CHOOSE m \in JSONDecodeErrors : TRUE), "load_context_error")
        ELSE IF missing_fields(json_loads(file)) # <<>>
        THEN Fail(st, <<U("perfil incompleto"), L(": falta ")>>
                          \o Join(missing_fields(json_loads(file))), "load_context_error")
        ELSE [st EXCEPT !.perfil_usuario = json_loads(file),
                        !.step_completed = "context_loaded"]

\* The state load_context returns, given whether open() fails with e
load_context_result(st, file, open_error) ==
    LET request_type == st.request_type
        user_id == st.user_id
    IN  IF request_type \notin SeqToSet(VALID_REQUEST_TYPES)
        THEN Fail(st, <<U("tipo de request desconocido"), L(": "), L(request_type)>>,
                  "load_context_error")
        ELSE IF user_id = ""
        THEN Fail(st, <<U("user id es requerido en el estado inicial.")>>,
                  "load_context_error")
        ELSE IF file.kind = "absent"
        THEN Fail(st, <<U("usuario '"), L(user_id), L("' "), L("no encontrado"),
                        L(" en "), U("users_dir")>>, "load_context_error")
        ELSE IF open_error # <<>>
        THEN Fail(st, <<U("error inesperado cargando perfil de '"), L(user_id), L("': ")>>
                          \o open_error, "load_context_error")
        ELSE IF ~IsJson(file)
        THEN Fail(st, <<U("archivo corrupto"), L(" para usuario '"), L(user_id), L("': ")>>
                          \o (CHOOSE m \in JSONDecodeErrors : TRUE), "load_context_error")
        ELSE IF missing_fields(json_loads(file)) # <<>>
        THEN Fail(st, <<U("perfil incompleto"), L(": falta ")>>
                          \o Join(missing_fields(json_loads(file))), "load_context_error")
        ELSE [st EXCEPT !.perfil_usuario = json_loads(file),
                        !.step_completed = "context_loaded"]

\* load_context without the existence check of lines 65-70: the missing
\* file surfaces as an unreadable one
load_context_mut ==
    /\ pc = "load_context"
    /\ \E open_error \in IOErrors \cup {<<>>} :
          state' = load_context_result(state,
                      IF state.user_id \in UserIds /\ users_dir[state.user_id] # FileAbsent
                      THEN users_dir[state.user_id]
                      ELSE Garbage("corrupt"), open_error)
    /\ pc' = "route_after_load"
    /\ trace' = Append(trace, "load_context")
    /\ UNCHANGED <<users_dir, backups, historial_dir, current_user_context, loc>>

load_context ==
    /\ pc = "load_context"
    /\ \E open_error \in IOErrors \cup {<<>>} :
          state' = load_context_result(state,
                      IF state.user_id \in DOMAIN users_dir THEN users_dir[state.user_id]
                      ELSE FileAbsent, open_error)
    /\ pc' = "route_after_load"
    /\ trace' = Append(trace, "load_context")
    /\ UNCHANGED <<users_dir, backups, historial_dir, current_user_context, loc>>

----------------------------------------------------------------------------
(* Graph routing (conditional edges of the compiled graph) *)

route_after_load_target(st) ==
    IF Truthy(st.error) THEN "handle_error"
    ELSE IF st.request_type = "crear_rutina" THEN "extract_principles"
    ELSE IF st.request_type = "registrar_ejercicio" THEN "call_legacy_register"
    ELSE IF st.request_type = "consultar_historial" THEN "call_legacy_query"
    ELSE "handle_error"

route_after_extract_target(st) ==
    IF Truthy(st.error) THEN "handle_error" ELSE "generate_routine"

route_after_generate_target(st) ==
    IF Truthy(st.error) THEN "handle_error" ELSE "save_routine"

route_after_load ==
    /\ pc = "route_after_load"
    /\ pc' = route_after_load_target(state)
    /\ UNCHANGED <<state, users_dir, backups, historial_dir, current_user_context, loc, trace>>

route_after_extract ==
    /\ pc = "route_after_extract"
    /\ pc' = route_after_extract_target(state)
    /\ UNCHANGED <<state, users_dir, backups, historial_dir, current_user_context, loc, trace>>

route_after_generate ==
    /\ pc = "route_after_generate"
    /\ pc' = route_after_generate_target(state)
    /\ UNCHANGED <<state, users_dir, backups, historial_dir, current_user_context, loc, trace>>

----------------------------------------------------------------------------
(* Exceptions raised by the retrieval / model chains *)

Exc(cls, msg) == [cls |-> cls, msg |-> msg]
NoException == Exc("None", <<>>)

OutputParserExceptions ==
    {Exc("OutputParserException", <<U("invalid json output: {bad}")>>)}

\* API failures; only some time-out messages contain the word "timeout"
APIErrors ==
    {Exc("APIConnectionError", <<U("connection error.")>>),
     Exc("APITimeoutError", <<U("request timed out.")>>),
     Exc("ReadTimeout", <<U("read "), U("timeout"), L(" on endpoint")>>)}

ConfigErrors == {<<L("[errno 2] "), U("no such file or directory"), L(": 'default.json'")>>}

EmptyDebugInfo ==
    [kind |-> "dict", principles_without_citations |-> Absent,
     invalid_generated_routine |-> Absent, generation_metadata |-> Absent]

\* if state.get("debug_info") is None: state["debug_info"] = {}
debug_info_or_empty(st) ==
    IF st.debug_info = None THEN EmptyDebugInfo ELSE st.debug_info

----------------------------------------------------------------------------
(* Node: extract_principles (agents/nodes/extract_principles.py) *)

\* extract_principles without the citation check of lines 72-82
extract_principles_result_mut(st, chain_result) ==
    IF ~Truthy(st.perfil_usuario)
    THEN Fail(st, <<U("perfil de usuario no disponible"), L(" para extraer principios.")>>,
              "extract_principles_error")
    ELSE IF chain_result.kind = "ImportError"
    THEN Fail(st, <<U("error de importacion, componentes rag podrian faltar.")>>,
              "extract_principles_error")
    ELSE IF chain_result.kind = "Exception"
    THEN Fail(st, <<U("error de api o rag"), L(" al extraer principios: ")>>
                      \o chain_result.exc.msg, "extract_principles_error")
    ELSE IF chain_result.kind = "None"
    THEN Fail(st, <<U("rag retorno resultado nulo"), L(" al extraer principios.")>>,
              "extract_principles_error")
    ELSE [st EXCEPT !.principios_libro = chain_result,
                    !.step_completed = "principles_extracted"]

\* chain_result: "ImportError" | an exception | None | a PrincipiosExtraidos
extract_principles_result(st, chain_result) ==
    IF ~Truthy(st.perfil_usuario)
    THEN Fail(st, <<U("perfil de usuario no disponible"), L(" para extraer principios.")>>,
              "extract_principles_error")
    ELSE IF chain_result.kind = "ImportError"
    THEN Fail(st, <<U("error de importacion, componentes rag podrian faltar.")>>,
              "extract_principles_error")
    ELSE IF chain_result.kind = "Exception"
    THEN Fail(st, <<U("error de api o rag"), L(" al extraer principios: ")>>
                      \o chain_result.exc.msg, "extract_principles_error")
    ELSE IF chain_result.kind = "None"
    THEN Fail(st, <<U("rag retorno resultado nulo"), L(" al extraer principios.")>>,
              "extract_principles_error")
    ELSE IF chain_result.citas_fuente = <<>>
    THEN [Fail(st, <<U("alucinacion detectada"),
                     L(": principios extraidos sin citas de fuente.")>>,
               "extract_principles_error")
            EXCEPT !.debug_info =
                [debug_info_or_empty(st) EXCEPT
                    !.principles_without_citations = model_dump(chain_result)]]
    ELSE [st EXCEPT !.principios_libro = chain_result,
                    !.step_completed = "principles_extracted"]

ExtractionOutcomes ==
    {[kind |-> "ImportError"], None}
        \cup {[kind |-> "Exception", exc |-> e] : e \in APIErrors}
        \cup PrincipiosExtraidos

extract_principles ==
    /\ pc = "extract_principles"
    /\ \E chain_result \in ExtractionOutcomes :
          /\ state' = extract_principles_result(state, chain_result)
          /\ loc' = [node |-> "extract_principles", chain_result |-> chain_result]
    /\ pc' = "route_after_extract"
    /\ trace' = Append(trace, "extract_principles")
    /\ UNCHANGED <<users_dir, backups, historial_dir, current_user_context>>

----------------------------------------------------------------------------
(* Node: generate_routine (agents/nodes/generate_routine.py) *)

MAX_RETRIES == 3

\* Exercises of the routine as <<session index, exercise index>> in loop order
ExerciseIndex(rutina) ==
    {<<i, j>> \in (1..Len(rutina.sesiones)) \X (1..(MaxEjercicios + 1)) :
        j <= Len(rutina.sesiones[i].ejercicios)}

\* The error the first loop (lines 30-54) returns for session i, or <<>>
session_error(rutina, principios, i) ==
    LET sesion == rutina.sesiones[i]
        bad(j) ==
            LET ejercicio == sesion.ejercicios[j]
            IN  IF ejercicio.tipo # "principal" THEN <<>>
                ELSE IF principios.intensidad_RIR = NoneStr
                THEN <<U("principios incompletos: 'intensidad_rir' es none.")>>
                ELSE IF principios.cadencia_tempo = NoneStr
                THEN <<U("principios incompletos: 'cadencia_tempo' es none.")>>
                ELSE IF ejercicio.RIR # principios.intensidad_RIR
                THEN <<U("ejercicio '"), U(ejercicio.nombre), L("' ("), U("sesion "),
                       L("tiene rir='"), L(ejercicio.RIR),
                       L("', pero los principios requieren rir='"),
                       L(principios.intensidad_RIR), L("'.")>>
                ELSE IF ejercicio.tempo # principios.cadencia_tempo
                THEN <<U("ejercicio '"), U(ejercicio.nombre), L("' ("), U("sesion "),
                       L("tiene tempo='"), L(ejercicio.tempo),
                       L("', pero los principios requieren tempo='"),
                       L(principios.cadencia_tempo), L("'.")>>
                ELSE <<>>
        failing == {j \in 1..Len(sesion.ejercicios) : bad(j) # <<>>}
    IN  IF sesion.ejercicios = <<>>
        THEN <<U("sesion "), L("no tiene ejercicios.")>>
        ELSE IF failing = {} THEN <<>>
        ELSE bad(CHOOSE j \in failing : \A k \in failing : j <= k)

\* perfil.get("preferencias_logistica", {}).get("duracion_sesion_min", 60);
\* "raise" when the stored value is not a dict (AttributeError)
duracion_max_min(perfil) ==
    LET preferencias == perfil.preferencias_logistica
    IN  IF preferencias = Absent THEN IntV(60)
        ELSE IF preferencias.kind # "dict" THEN [kind |-> "raise"]
        ELSE IF preferencias.duracion_sesion_min = Absent THEN IntV(60)
        ELSE preferencias.duracion_sesion_min

\* _validate_generated_routine: <<>> for None (no error), the error text, or
\* <<"raise">> for an exception escaping the validator
ValidatorRaises == <<[txt |-> "raise", caps |-> -1]>>

\* The validator without the duration loop of lines 65-68
validate_generated_routine_mut(rutina, principios, perfil) ==
    LET n == Len(rutina.sesiones)
        failing == {i \in 1..n : session_error(rutina, principios, i) # <<>>}
        required_eci_names ==
            {principios.ECI_recomendados[k].nombre_ejercicio :
                k \in 1..Len(principios.ECI_recomendados)}
        found_eci_names ==
            {rutina.sesiones[ij[1]].ejercicios[ij[2]].nombre :
                ij \in {x \in ExerciseIndex(rutina) :
                    rutina.sesiones[x[1]].ejercicios[x[2]].tipo = "ECI"}}
        missing_ecis == required_eci_names \ found_eci_names
    IN  IF n = 0 THEN <<U("rutina generada no tiene sesiones.")>>
        ELSE IF failing # {}
        THEN session_error(rutina, principios,
                           CHOOSE i \in failing : \A k \in failing : i <= k)
        ELSE IF duracion_max_min(perfil).kind = "raise" THEN ValidatorRaises
        ELSE IF missing_ecis # {}
        THEN <<U("rutina generada omite ecis"), L(" obligatorios: ")>>
                \o [k \in 1..1 |-> U(CHOOSE m \in missing_ecis : TRUE)] \o <<L(".")>>
        ELSE <<>>

validate_generated_routine(rutina, principios, perfil) ==
    LET n == Len(rutina.sesiones)
        failing == {i \in 1..n : session_error(rutina, principios, i) # <<>>}
        too_long == {i \in 1..n :
            rutina.sesiones[i].duracion_estimada_min > duracion_max_min(perfil).n}
        required_eci_names ==
            {principios.ECI_recomendados[k].nombre_ejercicio :
                k \in 1..Len(principios.ECI_recomendados)}
        found_eci_names ==
            {rutina.sesiones[ij[1]].ejercicios[ij[2]].nombre :
                ij \in {x \in ExerciseIndex(rutina) :
                    rutina.sesiones[x[1]].ejercicios[x[2]].tipo = "ECI"}}
        missing_ecis == required_eci_names \ found_eci_names
    IN  IF n = 0 THEN <<U("rutina generada no tiene sesiones.")>>
        ELSE IF failing # {}
        THEN session_error(rutina, principios,
                           CHOOSE i \in failing : \A k \in failing : i <= k)
        ELSE IF duracion_max_min(perfil).kind = "raise" THEN ValidatorRaises
        ELSE IF too_long # {}
        THEN <<U("sesion '"), L("' ("), L(" min) "),
               L("excede la duracion maxima permitida"), L(" min).")>>
        ELSE IF missing_ecis # {}
        THEN <<U("rutina generada omite ecis"), L(" obligatorios: ")>>
                \o [k \in 1..1 |-> U(CHOOSE m \in missing_ecis : TRUE)] \o <<L(".")>>
        ELSE <<>>

\* Lines 102-144: input guards, Config(), prompt template, chain construction.
\* setup: "ok" | "config_error" | "prompt_missing" | "prompt_unreadable"
generate_routine_setup(st, setup) ==
    IF ~Truthy(st.principios_libro)
    THEN Fail(st, <<U("principios del libro no disponibles para generar rutina.")>>,
              "generate_routine_error")
    ELSE IF ~Truthy(st.perfil_usuario)
    THEN Fail(st, <<U("perfil de usuario no disponible"), L(" para generar rutina.")>>,
              "generate_routine_error")
    ELSE IF setup = "config_error"
    THEN Fail(st, <<U("error inesperado generando rutina"), L(": ")>>
                      \o (CHOOSE m \in ConfigErrors : TRUE), "generate_routine_error")
    ELSE IF setup = "prompt_missing"
    THEN Fail(st, <<U("archivo de prompt "), L("no encontrado"), L(": "),
                    L("prompts/routine_assembler.txt")>>, "generate_routine_error")
    ELSE IF setup = "prompt_unreadable"
    THEN Fail(st, <<U("archivo de prompt "), L("de generacion "), L("no encontrado"),
                    L(".")>>, "generate_routine_error")
    ELSE st

generate_routine ==
    /\ pc = "generate_routine"
    /\ \E setup \in {"ok", "config_error", "prompt_missing", "prompt_unreadable"} :
          /\ state' = generate_routine_setup(state, setup)
          /\ IF state' = state
             THEN /\ pc' = "generate_routine_attempt"
                  /\ loc' = [node |-> "generate_routine", attempt |-> 0,
                             generated_routine |-> None,
                             last_exception |-> NoException, earlier |-> NoException]
             ELSE /\ pc' = "route_after_generate"
                  /\ loc' = NoLocals
    /\ trace' = Append(trace, "generate_routine")
    /\ UNCHANGED <<users_dir, backups, historial_dir, current_user_context>>

GenerationMetadata ==
    [modelo_usado |-> "gpt-4o-mini", temperatura_llm |-> 0, validation_passed |-> TRUE]

\* Lines 169-177 without the isinstance test of line 172
generation_failed_mut(st, last_exception) ==
    LET error_detail == IF last_exception # NoException THEN last_exception.msg
                        ELSE <<U("unknown error during generation.")>>
    IN  Fail(st, <<U("error generando rutina"), L(" despues de "), L("3"),
                   L(" intentos: ")>> \o error_detail, "generate_routine_error")

\* Lines 169-177: no routine was produced
generation_failed(st, last_exception) ==
    LET error_detail == IF last_exception # NoException THEN last_exception.msg
                        ELSE <<U("unknown error during generation.")>>
    IN  IF last_exception.cls = "OutputParserException"
        THEN Fail(st, <<U("llm no retorno json valido"), L(" despues de "), L("3"),
                        L(" intentos: ")>> \o error_detail, "generate_routine_error")
        ELSE Fail(st, <<U("error generando rutina"), L(" despues de "), L("3"),
                        L(" intentos: ")>> \o error_detail, "generate_routine_error")

\* Lines 179-213 with the step name "generated" on success
generation_succeeded_mut(st, generated_routine) ==
    LET validation_error ==
            validate_generated_routine(generated_routine, st.principios_libro,
                                       st.perfil_usuario)
    IN  IF validation_error = ValidatorRaises
        THEN Fail(st, <<U("error inesperado generando rutina"), L(": "),
                        L("'nonetype' object has no attribute 'get'")>>,
                  "generate_routine_error")
        ELSE IF validation_error # <<>>
        THEN [Fail(st, <<U("validacion fallida"), L(": ")>> \o validation_error,
                   "generate_routine_error")
                EXCEPT !.debug_info =
                    [debug_info_or_empty(st) EXCEPT
                        !.invalid_generated_routine = model_dump(generated_routine)]]
        ELSE [st EXCEPT !.rutina_final = generated_routine,
                        !.step_completed = "generated",
                        !.debug_info =
                            [(IF st.debug_info.kind = "dict" THEN st.debug_info
                              ELSE EmptyDebugInfo)
                                EXCEPT !.generation_metadata = GenerationMetadata]]

\* Lines 179-213: a routine was produced
generation_succeeded(st, generated_routine) ==
    LET validation_error ==
            validate_generated_routine(generated_routine, st.principios_libro,
                                       st.perfil_usuario)
    IN  IF validation_error = ValidatorRaises
        THEN Fail(st, <<U("error inesperado generando rutina"), L(": "),
                        L("'nonetype' object has no attribute 'get'")>>,
                  "generate_routine_error")
        ELSE IF validation_error # <<>>
        THEN [Fail(st, <<U("validacion fallida"), L(": ")>> \o validation_error,
                   "generate_routine_error")
                EXCEPT !.debug_info =
                    [debug_info_or_empty(st) EXCEPT
                        !.invalid_generated_routine = model_dump(generated_routine)]]
        ELSE [st EXCEPT !.rutina_final = generated_routine,
                        !.step_completed = "routine_generated",
                        !.debug_info =
                            [(IF st.debug_info.kind = "dict" THEN st.debug_info
                              ELSE EmptyDebugInfo)
                                EXCEPT !.generation_metadata = GenerationMetadata]]

\* The loop bound off by one: range(MAX_RETRIES + 1)
loop_continues_mut(attempt) == attempt <= MAX_RETRIES

\* for attempt in range(MAX_RETRIES)
loop_continues(attempt) == attempt < MAX_RETRIES

IsTimeout(e) == IsSubstring(<<L("timeout")>>, lower(e.msg))

\* One iteration of the retry loop (lines 149-167), followed by lines 169-213
\* when the loop is left
\* When the node returns with an error, loc keeps the locals the error was
\* built from: the candidate, or last_exception and (earlier) the value
\* last_exception had before the last assignment to it
generate_routine_attempt ==
    /\ pc = "generate_routine_attempt"
    /\ loop_continues(loc.attempt)
    /\ \/ \E generated_routine \in RutinaActiva :
            /\ state' = generation_succeeded(state, generated_routine)
            /\ pc' = "route_after_generate"
            /\ loc' = IF Truthy(state'.error)
                      THEN [loc EXCEPT !.attempt = 0,
                                       !.generated_routine = generated_routine,
                                       !.last_exception = NoException,
                                       !.earlier = NoException]
                      ELSE NoLocals
       \/ \E e \in OutputParserExceptions \cup APIErrors :
            LET leave == \/ (e.cls # "OutputParserException" /\ IsTimeout(e))
                         \/ ~loop_continues(loc.attempt + 1)
            IN  IF leave
                THEN /\ state' = generation_failed(state, e)
                     /\ pc' = "route_after_generate"
                     /\ loc' = [loc EXCEPT !.attempt = 0, !.last_exception = e,
                                           !.earlier = loc.last_exception]
                ELSE /\ loc' = [loc EXCEPT !.attempt = @ + 1, !.last_exception = e,
                                           !.earlier = loc.last_exception]
                     /\ UNCHANGED <<state, pc>>
    /\ UNCHANGED <<users_dir, backups, historial_dir, current_user_context, trace>>

----------------------------------------------------------------------------
(* Node: save_routine (agents/nodes/save_routine.py)                       *)
(* The node is modelled statement by statement between its file            *)
(* operations, so that the states in the middle of the transaction (and a  *)
(* process crash there) are states of the model.                           *)

UserFile == users_dir[state.user_id]

FileSystemError(msg) == <<U("error de archivo guardando"), L(" rutina: ")>> \o msg

VerificationFailed ==
    <<U("verification failed: written data does not match expected routine.")>>

\* The handler without its restore block
restore_attempted_mut(backup, original_content) == FALSE

\* Lines 100-105: the handler of (IOError, OSError, shutil.Error).
\* backup is "none" | "partial" | "full": what exists at backup_path.
restore_attempted(backup, original_content) ==
    backup # "none" /\ original_content.kind = "text"

save_failed(msg, backup) ==
    /\ state' = Fail(state, FileSystemError(msg), "save_routine_failed")
    /\ IF restore_attempted(backup, loc.original_content)
       THEN /\ pc' = "save_restore_open"
            /\ loc' = [loc EXCEPT !.backup = backup]
       ELSE /\ pc' = "END"
            /\ loc' = [loc EXCEPT !.backup = backup]

\* save_routine without the rutina_final guard of lines 40-44
save_routine_mut ==
    /\ pc = "save_routine"
    /\ trace' = Append(trace, "save_routine")
    /\ UNCHANGED <<users_dir, backups, historial_dir, current_user_context>>
    /\ IF state.user_id = ""
       THEN /\ state' = Fail(state, <<U("user id no disponible para guardar rutina.")>>,
                             "save_routine_error")
            /\ pc' = "END" /\ loc' = NoLocals
       ELSE \/ \* Config() raises: the exception leaves the node
               /\ pc' = "RAISED" /\ loc' = NoLocals /\ UNCHANGED state
            \/ /\ UserFile.kind = "absent"
               /\ state' = Fail(state, <<U("archivo de usuario "), L("no encontrado"),
                                         L(" en "), L("users/"), L(state.user_id),
                                         L(".json")>>, "save_routine_error")
               /\ pc' = "END" /\ loc' = NoLocals
            \/ /\ UserFile.kind # "absent"
               /\ \E e \in IOErrors :
                     /\ state' = Fail(state, FileSystemError(e), "save_routine_failed")
                     /\ pc' = "END" /\ loc' = NoLocals
            \/ /\ UserFile.kind = "garbage"
               /\ state' = Fail(state, <<U("archivo de usuario existente esta corrupto: ")>>
                                        \o (CHOOSE m \in JSONDecodeErrors : TRUE),
                                "save_routine_failed")
               /\ pc' = "END" /\ loc' = NoLocals
            \/ /\ UserFile.kind = "text"
               /\ loc' = [node |-> "save_routine", original_content |-> UserFile,
                          user_data |-> json_loads(UserFile), backup |-> "none"]
               /\ pc' = "save_backup"
               /\ UNCHANGED state

\* Lines 32-65: guards, Config(), existence check, read and parse
save_routine ==
    /\ pc = "save_routine"
    /\ trace' = Append(trace, "save_routine")
    /\ UNCHANGED <<users_dir, backups, historial_dir, current_user_context>>
    /\ IF state.user_id = ""
       THEN /\ state' = Fail(state, <<U("user id no disponible para guardar rutina.")>>,
                             "save_routine_error")
            /\ pc' = "END" /\ loc' = NoLocals
       ELSE IF ~Truthy(state.rutina_final)
       THEN /\ state' = Fail(state, <<U("rutina final vacia"),
                                      L(", no se puede guardar.")>>, "save_routine_error")
            /\ pc' = "END" /\ loc' = NoLocals
       ELSE \/ \* Config() raises: the exception leaves the node
               /\ pc' = "RAISED" /\ loc' = NoLocals /\ UNCHANGED state
            \/ /\ UserFile.kind = "absent"
               /\ state' = Fail(state, <<U("archivo de usuario "), L("no encontrado"),
                                         L(" en "), L("users/"), L(state.user_id),
                                         L(".json")>>, "save_routine_error")
               /\ pc' = "END" /\ loc' = NoLocals
            \/ /\ UserFile.kind # "absent"
               /\ \E e \in IOErrors :
                     /\ state' = Fail(state, FileSystemError(e), "save_routine_failed")
                     /\ pc' = "END" /\ loc' = NoLocals
            \/ /\ UserFile.kind = "garbage"
               /\ state' = Fail(state, <<U("archivo de usuario existente esta corrupto: ")>>
                                        \o (CHOOSE m \in JSONDecodeErrors : TRUE),
                                "save_routine_failed")
               /\ pc' = "END" /\ loc' = NoLocals
            \/ /\ UserFile.kind = "text"
               /\ loc' = [node |-> "save_routine", original_content |-> UserFile,
                          user_data |-> json_loads(UserFile), backup |-> "none"]
               /\ pc' = "save_backup"
               /\ UNCHANGED state

\* Lines 68-70: shutil.copy(user_file_path, backup_path)
save_backup ==
    /\ pc = "save_backup"
    /\ UNCHANGED <<users_dir, historial_dir, current_user_context, trace>>
    /\ \/ /\ backups' = backups \cup {UserFile}
          /\ loc' = [loc EXCEPT !.backup = "full"]
          /\ pc' = "save_write_open"
          /\ UNCHANGED state
       \/ \E e \in IOErrors :
            \* the copy fails before the destination is created
            /\ UNCHANGED backups
            /\ save_failed(e, "none")
       \/ \E e \in IOErrors :
            \* the copy fails after the destination was created
            /\ backups' = backups \cup {Garbage("partial")}
            /\ save_failed(e, "partial")
       \/ \E e \in IOErrors :
            \* the data was copied and copying the permission bits fails
            /\ backups' = backups \cup {UserFile}
            /\ save_failed(e, "full")

\* The routine written as the whole document instead of merged into it
merge_routine_mut(user_data, rutina_final) ==
    [user_data EXCEPT !.rutina_activa = model_dump(rutina_final),
                      !.updated_at = T_NOW,
                      !.name = Absent,
                      !.level = Absent]

\* Lines 75-76: the document with the routine merged in
merge_routine(user_data, rutina_final) ==
    [user_data EXCEPT !.rutina_activa = model_dump(rutina_final),
                      !.updated_at = T_NOW]

\* Lines 75-81: merge the routine, open(user_file_path, "w")
save_write_open ==
    /\ pc = "save_write_open"
    /\ UNCHANGED <<backups, historial_dir, current_user_context, trace>>
    /\ \/ /\ users_dir' = [users_dir EXCEPT ![state.user_id] = Garbage("truncated")]
          /\ loc' = [loc EXCEPT !.user_data = merge_routine(@, state.rutina_final)]
          /\ pc' = "save_write_dump"
          /\ UNCHANGED state
       \/ \E e \in IOErrors :
            /\ UNCHANGED users_dir
            /\ save_failed(e, loc.backup)

\* Line 82: json.dump(user_data, f, indent=2, ensure_ascii=False)
save_write_dump ==
    /\ pc = "save_write_dump"
    /\ UNCHANGED <<backups, historial_dir, current_user_context, trace>>
    /\ \/ /\ users_dir' = [users_dir EXCEPT ![state.user_id] = json_dump(loc.user_data)]
          /\ pc' = "save_verify"
          /\ UNCHANGED <<state, loc>>
       \/ \E e \in IOErrors :
            /\ users_dir' = [users_dir EXCEPT ![state.user_id] = Garbage("partial")]
            /\ save_failed(e, loc.backup)

\* if written_data.get("rutina_activa", {}).get("fecha_creacion") != rutina_final.fecha_creacion
verification_mismatch(written_data, rutina_final) ==
    IF written_data.rutina_activa = Absent THEN TRUE
    ELSE written_data.rutina_activa.fecha_creacion # rutina_final.fecha_creacion

\* Lines 86-97: re-read, verify, report success
save_verify ==
    /\ pc = "save_verify"
    /\ UNCHANGED <<backups, historial_dir, current_user_context, trace>>
    /\ \/ \E e \in IOErrors :
            /\ UNCHANGED users_dir
            /\ save_failed(e, loc.backup)
       \/ \* the file read back is the one written, or (the write did not land)
          \* the document that was there before
          \E found \in {UserFile, loc.original_content} :
            /\ users_dir' = [users_dir EXCEPT ![state.user_id] = found]
            /\ IF verification_mismatch(json_loads(found), state.rutina_final)
               THEN save_failed(VerificationFailed, loc.backup)
               ELSE /\ state' = [state EXCEPT
                            !.respuesta_usuario =
                                <<L("[OK] "), U("rutina "), L("guardada"),
                                  L(" exitosamente en tu perfil.")>>,
                            !.step_completed = "saved"]
                    /\ pc' = "END"
                    /\ UNCHANGED loc

RestoreWarning(msg) ==
    <<L(" | "), U("advertencia: no se pudo restaurar el backup: ")>> \o msg

\* Line 111: open(user_file_path, "w") of the restore
save_restore_open ==
    /\ pc = "save_restore_open"
    /\ UNCHANGED <<backups, historial_dir, current_user_context, trace>>
    /\ \/ /\ users_dir' = [users_dir EXCEPT ![state.user_id] = Garbage("truncated")]
          /\ pc' = "save_restore_write"
          /\ UNCHANGED <<state, loc>>
       \/ \E e \in IOErrors :
            /\ state' = [state EXCEPT !.error = Str(@.toks \o RestoreWarning(e))]
            /\ pc' = "END"
            /\ UNCHANGED <<users_dir, loc>>

\* Line 112: f_restore.write(original_content)
save_restore_write ==
    /\ pc = "save_restore_write"
    /\ UNCHANGED <<backups, historial_dir, current_user_context, loc, trace>>
    /\ pc' = "END"
    /\ \/ /\ users_dir' = [users_dir EXCEPT ![state.user_id] = loc.original_content]
          /\ UNCHANGED state
       \/ \E e \in IOErrors :
            /\ users_dir' = [users_dir EXCEPT ![state.user_id] = Garbage("partial")]
            /\ state' = [state EXCEPT !.error = Str(@.toks \o RestoreWarning(e))]

InSaveRoutine ==
    pc \in {"save_backup", "save_write_open", "save_write_dump", "save_verify",
            "save_restore_open", "save_restore_write"}

\* The process is killed while save_routine runs
crash ==
    /\ InSaveRoutine
    /\ pc' = "CRASHED"
    /\ UNCHANGED <<state, users_dir, backups, historial_dir, current_user_context,
                   loc, trace>>

----------------------------------------------------------------------------
(* Legacy tools (tools/_base.py, tools/registro.py, tools/historial.py) *)

\* get_historial that never finds stored records
get_historial_mut(file) == <<>>

\* UserContext.get_historial: the stored list, [] when the file is absent or
\* not parseable
get_historial(file) == IF IsJson(file) THEN json_loads(file) ELSE <<>>

\* f"{peso_kg}" of a float
FloatStr(n) == ToString(n) \o ".0"

\* registrar_ejercicio: <<history file afterwards, returned text>>.
\* fault: "none" | "read" | "open" | "write" (the file operation that raises)
registrar_ejercicio(file, user_id, datos_ejercicio, fault, e) ==
    LET nueva_entrada ==
            HistEntry(T_NOW, user_id, datos_ejercicio.ejercicio, datos_ejercicio.series,
                      datos_ejercicio.repeticiones, datos_ejercicio.peso_kg)
        failed == <<L("[X] "), U("error al registrar: ")>> \o e
    IN  IF fault = "read" /\ file.kind # "absent" THEN <<file, failed>>
        ELSE IF fault = "open" THEN <<file, failed>>
        ELSE IF fault = "write" THEN <<Garbage("partial"), failed>>
        ELSE <<json_dump(Append(get_historial(file), nueva_entrada)),
               <<L("[OK] "), U("registrado: "), L(datos_ejercicio.ejercicio), L(" - "),
                 L(ToString(datos_ejercicio.series)), L("x"),
                 L(ToString(datos_ejercicio.repeticiones)), L(" @ "),
                 L(FloatStr(datos_ejercicio.peso_kg)), L("kg")>>>>

Max(a, b) == IF a > b THEN a ELSE b

\* timestamp[:10]
Prefix10(ts) ==
    IF ts = T_OLD THEN <<L("2025-01-01")>> ELSE <<L("2025-06-01")>>

\* consultar_historial taking historial[:ultimos_n], the first records
consultar_historial_mut(file, ultimos_n, fault, e) ==
    LET historial == get_historial(file)
        n == Len(historial)
        recientes == SubSeq(historial, 1, IF n < ultimos_n THEN n ELSE ultimos_n)
        line(i) ==
            <<L(ToString(i)), L(". "), L(recientes[i].ejercicio), L("\n   "),
              L(ToString(recientes[i].series)), L("x"),
              L(ToString(recientes[i].repeticiones)), L(" @ "),
              L(FloatStr(recientes[i].peso_kg)), L("kg\n   ")>>
                \o Prefix10(recientes[i].timestamp) \o <<L("\n")>>
        RECURSIVE lines(_)
        lines(i) == IF i > Len(recientes) THEN <<>> ELSE line(i) \o lines(i + 1)
    IN  IF fault = "read" /\ file.kind # "absent"
        THEN <<L("[X] "), U("error al consultar historial: ")>> \o e
        ELSE IF historial = <<>>
        THEN <<L("[ ] "), U("no hay entrenamientos registrados aun.")>>
        ELSE <<L("[=] "), U("ultimos "), L(ToString(Len(recientes))),
               L(" entrenamientos:\n\n")>> \o lines(1)

\* consultar_historial(ultimos_n): the returned text
consultar_historial(file, ultimos_n, fault, e) ==
    LET historial == get_historial(file)
        n == Len(historial)
        recientes == SubSeq(historial, Max(1, n - ultimos_n + 1), n)
        line(i) ==
            <<L(ToString(i)), L(". "), L(recientes[i].ejercicio), L("\n   "),
              L(ToString(recientes[i].series)), L("x"),
              L(ToString(recientes[i].repeticiones)), L(" @ "),
              L(FloatStr(recientes[i].peso_kg)), L("kg\n   ")>>
                \o Prefix10(recientes[i].timestamp) \o <<L("\n")>>
        RECURSIVE lines(_)
        lines(i) == IF i > Len(recientes) THEN <<>> ELSE line(i) \o lines(i + 1)
    IN  IF fault = "read" /\ file.kind # "absent"
        THEN <<L("[X] "), U("error al consultar historial: ")>> \o e
        ELSE IF historial = <<>>
        THEN <<L("[ ] "), U("no hay entrenamientos registrados aun.")>>
        ELSE <<L("[=] "), U("ultimos "), L(ToString(Len(recientes))),
               L(" entrenamientos:\n\n")>> \o lines(1)

\* set_user_context that leaves the module global as it was
set_user_context_mut(current, user_context) == current

\* set_user_context: the new value of the global _current_user_context
set_user_context(current, user_context) == user_context

\* get_user_context raises RuntimeError while the global is None
NoUserContext == <<U("no hay contexto de usuario. usa trainingtoolsfactory.")>>

----------------------------------------------------------------------------
(* Nodes: call_legacy_register, call_legacy_query (agents/nodes/legacy.py) *)

\* call_legacy_register whose tool stores {user_id}.json in the users directory
call_legacy_register_mut ==
    /\ pc = "call_legacy_register"
    /\ trace' = Append(trace, "call_legacy_register")
    /\ pc' = "END"
    /\ UNCHANGED backups
    /\ IF state.user_id = ""
       THEN /\ state' = Fail(state, <<U("user id faltante para call_legacy_register")>>,
                             "call_legacy_register_error")
            /\ loc' = NoLocals
            /\ UNCHANGED <<users_dir, historial_dir, current_user_context>>
       ELSE \/ \* _parse_with_llm returns None
               /\ state' = Fail(state,
                    <<U("no pude entender los detalles de tu ejercicio. puedes refrasearlo?")>>,
                    "call_legacy_register_error")
               /\ loc' = [node |-> "call_legacy_register", ejercicio_data |-> None,
                          fault |-> "none"]
               /\ UNCHANGED <<users_dir, historial_dir, current_user_context>>
            \/ \E ejercicio_data \in EjercicioEstructurado :
                 \/ \* UserContext(user_id) raises (mkdir of the history directory)
                    \E e \in IOErrors :
                         /\ loc' = [node |-> "call_legacy_register",
                                    ejercicio_data |-> ejercicio_data,
                                    fault |-> "mkdir"]
                         /\ state' = Fail(state,
                                <<U("error interno al registrar ejercicio: ")>> \o e,
                                "call_legacy_register_error")
                         /\ UNCHANGED <<users_dir, historial_dir, current_user_context>>
                 \/ \E fault \in {"none", "read", "open", "write"}, e \in IOErrors :
                         LET user_context == current_user_context'
                             r == IF user_context = ""
                                  THEN <<FileAbsent,
                                         <<L("[X] "), U("error al registrar: ")>>
                                            \o NoUserContext>>
                                  ELSE registrar_ejercicio(historial_dir[user_context],
                                            user_context, ejercicio_data, fault, e)
                         IN  /\ loc' = [node |-> "call_legacy_register",
                                        ejercicio_data |-> ejercicio_data,
                                        fault |-> fault]
                             /\ current_user_context' =
                                    set_user_context(current_user_context, state.user_id)
                             /\ users_dir' =
                                    IF user_context = "" THEN users_dir
                                    ELSE [users_dir EXCEPT ![user_context] = r[1]]
                             /\ UNCHANGED historial_dir
                             /\ state' = [state EXCEPT
                                    !.respuesta_usuario = r[2],
                                    !.step_completed = "call_legacy_register"]

call_legacy_register ==
    /\ pc = "call_legacy_register"
    /\ trace' = Append(trace, "call_legacy_register")
    /\ pc' = "END"
    /\ UNCHANGED <<users_dir, backups>>
    /\ IF state.user_id = ""
       THEN /\ state' = Fail(state, <<U("user id faltante para call_legacy_register")>>,
                             "call_legacy_register_error")
            /\ loc' = NoLocals
            /\ UNCHANGED <<historial_dir, current_user_context>>
       ELSE \/ \* _parse_with_llm returns None
               /\ state' = Fail(state,
                    <<U("no pude entender los detalles de tu ejercicio. puedes refrasearlo?")>>,
                    "call_legacy_register_error")
               /\ loc' = [node |-> "call_legacy_register", ejercicio_data |-> None,
                          fault |-> "none"]
               /\ UNCHANGED <<historial_dir, current_user_context>>
            \/ \E ejercicio_data \in EjercicioEstructurado :
                 \/ \* UserContext(user_id) raises (mkdir of the history directory)
                    \E e \in IOErrors :
                         /\ loc' = [node |-> "call_legacy_register",
                                    ejercicio_data |-> ejercicio_data,
                                    fault |-> "mkdir"]
                         /\ state' = Fail(state,
                                <<U("error interno al registrar ejercicio: ")>> \o e,
                                "call_legacy_register_error")
                         /\ UNCHANGED <<historial_dir, current_user_context>>
                 \/ \E fault \in {"none", "read", "open", "write"}, e \in IOErrors :
                         LET user_context == current_user_context'
                             r == IF user_context = ""
                                  THEN <<FileAbsent,
                                         <<L("[X] "), U("error al registrar: ")>>
                                            \o NoUserContext>>
                                  ELSE registrar_ejercicio(historial_dir[user_context],
                                            user_context, ejercicio_data, fault, e)
                         IN  /\ loc' = [node |-> "call_legacy_register",
                                        ejercicio_data |-> ejercicio_data,
                                        fault |-> fault]
                             /\ current_user_context' =
                                    set_user_context(current_user_context, state.user_id)
                             /\ historial_dir' =
                                    IF user_context = "" THEN historial_dir
                                    ELSE [historial_dir EXCEPT ![user_context] = r[1]]
                             /\ state' = [state EXCEPT
                                    !.respuesta_usuario = r[2],
                                    !.step_completed = "call_legacy_register"]

call_legacy_query ==
    /\ pc = "call_legacy_query"
    /\ trace' = Append(trace, "call_legacy_query")
    /\ pc' = "END"
    /\ UNCHANGED <<users_dir, backups, historial_dir>>
    /\ IF state.user_id = ""
       THEN /\ state' = Fail(state, <<U("user id faltante para call_legacy_query")>>,
                             "call_legacy_query_error")
            /\ loc' = NoLocals
            /\ UNCHANGED current_user_context
       ELSE \/ \* UserContext(user_id) raises (mkdir of the history directory)
               \E e \in IOErrors :
                 /\ state' = Fail(state, <<U("error interno al consultar historial: ")>> \o e,
                                  "call_legacy_query_error")
                 /\ loc' = [node |-> "call_legacy_query", fault |-> "mkdir"]
                 /\ UNCHANGED current_user_context
            \/ \E fault \in {"none", "read"}, e \in IOErrors :
                 /\ current_user_context' =
                        set_user_context(current_user_context, state.user_id)
                 /\ loc' = [node |-> "call_legacy_query", fault |-> fault]
                 /\ LET user_context == current_user_context'
                    IN  state' = [state EXCEPT
                            !.respuesta_usuario =
                                IF user_context = ""
                                THEN <<L("[X] "), U("error al consultar historial: ")>>
                                        \o NoUserContext
                                ELSE consultar_historial(historial_dir[user_context], 7,
                                                         fault, e),
                            !.step_completed = "call_legacy_query"]

----------------------------------------------------------------------------
(* Node: handle_error (agents/nodes/handle_error.py) *)

\* The dict in insertion order: <<key, user-friendly message>>
ERROR_MESSAGE_MAP ==
    << <<<<L("rir inconsistente")>>,
         <<U("la rutina generada no respeta el rir recomendado por el libro.")>>>>,
       <<<<L("reps inconsistentes")>>,
         <<U("la rutina generada no respeta las repeticiones recomendadas por el libro.")>>>>,
       <<<<L("rutina excede duracion")>>,
         <<U("la rutina generada es demasiado larga para el tiempo que especificaste.")>>>>,
       <<<<L("rutina generada omite ecis")>>,
         <<U("la rutina generada no incluyo ejercicios compensatorios necesarios.")>>>>,
       <<<<L("permission denied")>>,
         <<U("error del sistema al intentar guardar (problema de permisos).")>>>>,
       <<<<L("permisos insuficientes")>>,
         <<U("error del sistema al intentar guardar (problema de permisos).")>>>>,
       <<<<L("espacio en disco insuficiente")>>,
         <<U("error del sistema al intentar guardar (espacio en disco lleno).")>>>>,
       <<<<L("error de archivo guardando")>>,
         <<U("error del sistema al intentar guardar la rutina en tu perfil.")>>>>,
       <<<<L("rutina final vacia")>>,
         <<U("no se genero una rutina valida para guardar.")>>>>,
       <<<<L("verificacion de persistencia fallo")>>,
         <<U("error interno al verificar que la rutina se guardo correctamente.")>>>>,
       <<<<L("rutina generada esta vacia")>>,
         <<U("la rutina que se intento generar resulto vacia.")>>>>,
       <<<<L("no encontrado")>>,
         <<U("tu perfil de usuario no se encontro en el sistema.")>>>>,
       <<<<L("archivo corrupto")>>,
         <<U("hubo un problema al leer los datos de tu perfil. podria estar corrupto.")>>>>,
       <<<<L("perfil incompleto")>>,
         <<U("a tu perfil le faltan datos esenciales (como nivel u objetivo).")>>>>,
       <<<<L("perfil de usuario no disponible")>>,
         <<U("no se pudo cargar tu perfil para esta accion.")>>>>,
       <<<<L("alucinacion detectada")>>,
         <<U("no pude verificar la informacion extraida del libro (faltan citas). no puedo proceder de forma segura.")>>>>,
       <<<<L("rag retorno resultado nulo")>>,
         <<U("no pude obtener los principios de entrenamiento del libro en este momento.")>>>>,
       <<<<L("error de api o rag")>>,
         <<U("hubo un problema comunicandome con el sistema de extraccion de informacion.")>>>>,
       <<<<L("principios del libro retornaron vacios")>>,
         <<U("no se encontraron principios aplicables en el libro para tu perfil.")>>>>,
       <<<<L("archivo de prompt "), L("no encontrado")>>,
         <<U("error interno: falta una plantilla necesaria para generar la rutina.")>>>>,
       <<<<L("llm no retorno json valido")>>,
         <<U("la ia genero una respuesta en un formato inesperado y no se pudo procesar.")>>>>,
       <<<<L("validacion fallida")>>,
         <<U("la rutina generada no parece cumplir con los principios o tus preferencias.")>>>>,
       <<<<L("error generando rutina")>>,
         <<U("hubo un problema al intentar generar tu rutina.")>>>>,
       <<<<L("tipo de request desconocido")>>,
         <<U("no entendi que accion deseas realizar.")>>>>,
       <<<<L("structuredtool' object is not callable")>>,
         <<U("error interno al intentar usar una herramienta legacy.")>>>>,
       <<<<L("formato no reconocido")>>,
         <<U("el formato del comando no es el esperado.")>>>> >>

DEFAULT_ERROR_MESSAGE == <<U("ocurrio un error inesperado procesando tu solicitud.")>>

\* The loop without its break: the message of the last key found
user_friendly_message_mut(technical_error_msg) ==
    LET technical_error_lower == lower(technical_error_msg)
        matches == {k \in 1..Len(ERROR_MESSAGE_MAP) :
                        IsSubstring(lower(ERROR_MESSAGE_MAP[k][1]), technical_error_lower)}
    IN  IF matches = {} THEN DEFAULT_ERROR_MESSAGE
        ELSE ERROR_MESSAGE_MAP[CHOOSE k \in matches : \A m \in matches : k >= m][2]

\* The for/else loop of lines 115-121: the message of the first key found
user_friendly_message(technical_error_msg) ==
    LET technical_error_lower == lower(technical_error_msg)
        matches == {k \in 1..Len(ERROR_MESSAGE_MAP) :
                        IsSubstring(lower(ERROR_MESSAGE_MAP[k][1]), technical_error_lower)}
    IN  IF matches = {} THEN DEFAULT_ERROR_MESSAGE
        ELSE ERROR_MESSAGE_MAP[CHOOSE k \in matches : \A m \in matches : k <= m][2]

\* handle_error that writes respuesta_usuario only when a node left none
handle_error_result_mut(st) ==
    LET technical_error_msg ==
            IF st.error = None THEN <<U("error desconocido reportado sin mensaje.")>>
            ELSE st.error.toks
        failed_step == st.step_completed
    IN  [st EXCEPT
            !.respuesta_usuario =
                IF st.respuesta_usuario # <<>> THEN st.respuesta_usuario
                ELSE <<L("[X] "), U("lo siento, hubo un problema: ")>>
                        \o user_friendly_message(technical_error_msg)
                        \o <<L("\n("), U("referencia: paso '"), L(failed_step), L("')")>>,
            !.step_completed = "error",
            !.principios_libro = Absent,
            !.rutina_final = Absent]

handle_error_result(st) ==
    LET technical_error_msg ==
            IF st.error = None THEN <<U("error desconocido reportado sin mensaje.")>>
            ELSE st.error.toks
        failed_step == st.step_completed
    IN  [st EXCEPT
            !.respuesta_usuario =
                <<L("[X] "), U("lo siento, hubo un problema: ")>>
                    \o user_friendly_message(technical_error_msg)
                    \o <<L("\n("), U("referencia: paso '"), L(failed_step), L("')")>>,
            !.step_completed = "error",
            !.principios_libro = Absent,
            !.rutina_final = Absent]

handle_error ==
    /\ pc = "handle_error"
    /\ state' = handle_error_result(state)
    /\ pc' = "END"
    /\ trace' = Append(trace, "handle_error")
    /\ UNCHANGED <<users_dir, backups, historial_dir, current_user_context, loc>>

----------------------------------------------------------------------------
(* The run of the graph *)

Next ==
    \/ load_context
    \/ route_after_load
    \/ extract_principles
    \/ route_after_extract
    \/ generate_routine
    \/ generate_routine_attempt
    \/ route_after_generate
    \/ save_routine
    \/ save_backup
    \/ save_write_open
    \/ save_write_dump
    \/ save_verify
    \/ save_restore_open
    \/ save_restore_write
    \/ crash
    \/ call_legacy_register
    \/ call_legacy_query
    \/ handle_error

Spec == Init /\ [][Next]_vars

----------------------------------------------------------------------------
(* handle_error as a function of the state it is handed *)

\* Technical errors: matching several keys, one key, none; with and
\* without capitals; the empty string; None
HandleErrorErrors ==
    {None, Str(<<>>),
     Str(<<U("validacion fallida"), L(": "), U("rir inconsistente"), L(" en press banca")>>),
     Str(<<L("validacion fallida"), L(": "), L("rir inconsistente"), L(" en remo")>>),
     Str(<<U("validacion fallida"), L(": "), U("rutina generada omite ecis"),
           L(" obligatorios: "), U("face pull"), L(".")>>),
     Str(<<U("validacion fallida"), L(": "), U("sesion "), L("no tiene ejercicios.")>>),
     Str(<<U("usuario '"), L("u1"), L("' "), L("no encontrado"), L(" en "),
           L("users/"), L("u1"), L(".json")>>),
     Str(<<U("archivo de prompt "), L("no encontrado"), L(": "),
           L("prompts/routine_assembler.txt")>>),
     Str(<<U("request timed out.")>>)}
        \cup {Str(FileSystemError(e)) : e \in IOErrors}
        \cup {Str(e) : e \in IOErrors}

HandleErrorInputs ==
    {[create_initial_state(uid, rt) EXCEPT
            !.error = err, !.step_completed = step, !.principios_libro = pl,
            !.rutina_final = rf, !.respuesta_usuario = ru] :
        uid \in UserIds, rt \in {"crear_rutina", "registrar_ejercicio"},
        err \in HandleErrorErrors,
        step \in {"", "load_context_error", "generate_routine_error",
                  "save_routine_failed"},
        pl \in {None, Absent}
                \cup {x \in PrincipiosExtraidos :
                        /\ x.citas_fuente = <<>> /\ x.ECI_recomendados = <<>>
                        /\ x.intensidad_RIR # NoneStr /\ x.cadencia_tempo # NoneStr},
        rf \in {None, Absent},
        ru \in {<<>>, <<L("[OK] "), U("registrado: "), L("sentadilla")>>}}

HandleErrorInit ==
    /\ pc = "handle_error"
    /\ state \in HandleErrorInputs
    /\ users_dir = [u \in UserIds |-> FileAbsent]
    /\ backups = {}
    /\ historial_dir = [u \in UserIds |-> FileAbsent]
    /\ current_user_context = ""
    /\ loc = NoLocals
    /\ trace = <<>>

HandleErrorNext == handle_error

SpecHandleError == HandleErrorInit /\ [][HandleErrorNext]_vars

----------------------------------------------------------------------------
(* save_routine as a function of the state and the profile file it finds *)

\* States handed to save_routine, with and without user_id and rutina_final
SaveRoutineInputs ==
    {[create_initial_state(uid, "crear_rutina") EXCEPT
            !.rutina_final = rf, !.step_completed = "routine_generated"] :
        uid \in UserIds \cup {""},
        rf \in {None, Absent}
                \cup {r \in RutinaActiva :
                        /\ Len(r.sesiones) = 1
                        /\ Len(r.sesiones[1].ejercicios) = 1
                        /\ r.sesiones[1].ejercicios[1].tipo = "principal"}}

SaveRoutineInit ==
    /\ pc = "save_routine"
    /\ state \in SaveRoutineInputs
    /\ \E prof \in ProfileFiles : users_dir = [u \in UserIds |-> prof]
    /\ backups = {}
    /\ historial_dir = [u \in UserIds |-> FileAbsent]
    /\ current_user_context = ""
    /\ loc = NoLocals
    /\ trace = <<>>

SaveRoutineNext ==
    \/ save_routine
    \/ save_backup
    \/ save_write_open
    \/ save_write_dump
    \/ save_verify
    \/ save_restore_open
    \/ save_restore_write

SpecSaveRoutine == SaveRoutineInit /\ [][SaveRoutineNext]_vars

----------------------------------------------------------------------------
(* call_legacy_query over history files longer than the 7 records it shows *)

QueryHistFiles ==
    {FileAbsent, Garbage("corrupt")}
        \cup {TextFile("indent2", h) : h \in SeqsUpTo(OldEntries, MaxQueryHistorial)}

QueryInit ==
    /\ pc = "call_legacy_query"
    /\ \E uid \in UserIds, doc \in ProfileDocs :
          /\ missing_fields(doc) = <<>>
          /\ users_dir = [u \in UserIds |-> TextFile("authored", doc)]
          /\ state = [create_initial_state(uid, "consultar_historial") EXCEPT
                        !.perfil_usuario = doc, !.step_completed = "context_loaded"]
    /\ \E hist \in QueryHistFiles : historial_dir = [u \in UserIds |-> hist]
    /\ backups = {}
    /\ current_user_context = ""
    /\ loc = NoLocals
    /\ trace = <<"load_context">>

QueryNext == call_legacy_query

SpecQuery == QueryInit /\ [][QueryNext]_vars

----------------------------------------------------------------------------
(* Classification of a typed line (main.py) *)

\* REQUEST_TYPE_KEYWORDS; a keyword with a blank inside is two pieces
REQUEST_TYPE_KEYWORDS ==
    [crear_rutina |->
        <<<<L("rutina")>>, <<L("crea")>>, <<L("genera")>>, <<L("nueva")>>,
          <<L("plan")>>, <<L("programa")>>>>,
     consultar_historial |->
        <<<<L("historial")>>, <<L("muestrame")>>, <<L("que "), L("hice")>>,
          <<L("registro")>>, <<L("pasado")>>, <<L("hice")>>>>,
     registrar_ejercicio |->
        <<<<L("registra")>>, <<L("anota")>>, <<L("ejercicio")>>, <<L("sentadilla")>>,
          <<L("press")>>, <<L("kg")>>, <<L("peso "), L("muerto")>>>>]

\* any(kw in user_input_lower for kw in REQUEST_TYPE_KEYWORDS[request_type])
any_keyword(request_type, user_input_lower) ==
    \E k \in 1..Len(REQUEST_TYPE_KEYWORDS[request_type]) :
        IsSubstring(REQUEST_TYPE_KEYWORDS[request_type][k], user_input_lower)

\* The classifier testing the types in the order of the dict
determinar_request_type_mut(user_input) ==
    LET user_input_lower == lower(user_input)
    IN  IF any_keyword("crear_rutina", user_input_lower) THEN "crear_rutina"
        ELSE IF any_keyword("consultar_historial", user_input_lower)
        THEN "consultar_historial"
        ELSE IF any_keyword("registrar_ejercicio", user_input_lower)
        THEN "registrar_ejercicio"
        ELSE "unknown"

determinar_request_type(user_input) ==
    LET user_input_lower == lower(user_input)
    IN  IF any_keyword("consultar_historial", user_input_lower)
        THEN "consultar_historial"
        ELSE IF any_keyword("registrar_ejercicio", user_input_lower)
        THEN "registrar_ejercicio"
        ELSE IF any_keyword("crear_rutina", user_input_lower) THEN "crear_rutina"
        ELSE "unknown"

\* Pieces of typed lines: keywords of each type, with and without capitals,
\* halves of the two-piece keywords, and text that is no keyword
InputTokens ==
    {L("historial"), U("historial"), L("que "), L("hice"),
     L("registra"), U("kg"), L("peso "), L("muerto"),
     L("rutina"), U("crea"), L("hola"), L(" ")}

UserInputs == SeqsUpTo(InputTokens, MaxInputTokens)

\* Lines 127-131 of main(): classify the line and build the initial state
main_prepare_state ==
    /\ pc = "main"
    /\ LET request_type == determinar_request_type(loc.user_input)
       IN  state' = [create_initial_state(loc.user_id, request_type) EXCEPT
                        !.user_message = Str(loc.user_input)]
    /\ pc' = "load_context"
    /\ UNCHANGED <<users_dir, backups, historial_dir, current_user_context, loc, trace>>

\* A logged-in user has typed a line; no graph state exists yet
ClassifyInit ==
    /\ pc = "main"
    /\ \E user_input \in UserInputs :
          loc = [node |-> "main", user_id |-> "u1", user_input |-> user_input]
    /\ state = create_initial_state("", "")
    /\ \E doc \in ProfileDocs :
          /\ missing_fields(doc) = <<>> /\ doc.rutina_activa = Absent
          /\ doc.preferencias_logistica = Absent
          /\ users_dir = [u \in UserIds |-> TextFile("authored", doc)]
    /\ backups = {}
    /\ historial_dir = [u \in UserIds |-> FileAbsent]
    /\ current_user_context = ""
    /\ trace = <<>>

ClassifyNext == main_prepare_state

SpecClassify == ClassifyInit /\ [][ClassifyNext]_vars

----------------------------------------------------------------------------
(* Properties *)

\* C1: in the final state of every run respuesta_usuario is a non-empty
\* string, also when save_routine or a legacy node ended with error set.
C1_FinalResponseNonEmpty ==
    pc = "END" => state.respuesta_usuario # <<>>

\* C2: in every final state of a run, error being set implies
\* step_completed = "error" (is_state_valid accepts the final state).
C2_FinalErrorStep ==
    (pc = "END" /\ Truthy(state.error)) => state.step_completed = "error"

\* C3: a node starts only as the successor the relation gives for the node
\* before it and the state that node left: after load_context, handle_error
\* iff error is set, else the node of the request type; after
\* extract_principles, generate_routine iff error is unset, else handle_error;
\* after generate_routine, save_routine iff error is unset, else handle_error;
\* nothing after save_routine, handle_error or a legacy node; no node twice;
\* and a run ends only after one of those last nodes.
C3_SuccessorRelation ==
    /\ [][trace' # trace =>
            LET node == trace'[Len(trace')]
                prev == trace[Len(trace)]
                err == Truthy(state.error)
                successors ==
                    IF trace = <<>> THEN {"load_context"}
                    ELSE IF prev = "load_context"
                    THEN IF err THEN {"handle_error"}
                         ELSE IF state.request_type = "crear_rutina"
                         THEN {"extract_principles"}
                         ELSE IF state.request_type = "registrar_ejercicio"
                         THEN {"call_legacy_register"}
                         ELSE IF state.request_type = "consultar_historial"
                         THEN {"call_legacy_query"}
                         ELSE {}
                    ELSE IF prev = "extract_principles"
                    THEN IF err THEN {"handle_error"} ELSE {"generate_routine"}
                    ELSE IF prev = "generate_routine"
                    THEN IF err THEN {"handle_error"} ELSE {"save_routine"}
                    ELSE {}
            IN  /\ trace' = Append(trace, node)
                /\ node \in successors
                /\ node \notin SeqToSet(trace)]_vars
    /\ [](pc = "END" =>
            /\ trace # <<>>
            /\ trace[Len(trace)] \in {"save_routine", "handle_error",
                                      "call_legacy_register", "call_legacy_query"})

C3_Witness ==
    /\ pc = "END"
    /\ trace = <<"load_context", "extract_principles", "generate_routine", "handle_error">>

\* C4: a value stored in principios_libro with step_completed =
\* "principles_extracted" has a non-empty citas_fuente; when the extraction
\* chain returned principles without citations the node leaves with error
\* "Alucinacion detectada...", principios_libro unset, and the uncited
\* output under debug_info["principles_without_citations"].
C4_CitationsRequired ==
    /\ state.step_completed = "principles_extracted" =>
            /\ state.principios_libro \in PrincipiosExtraidos
            /\ state.principios_libro.citas_fuente # <<>>
    /\ (/\ pc = "route_after_extract"
        /\ loc.chain_result \in PrincipiosExtraidos
        /\ loc.chain_result.citas_fuente = <<>>) =>
            /\ Truthy(state.error)
            /\ state.error.toks[1] = U("alucinacion detectada")
            /\ state.step_completed # "principles_extracted"
            /\ state.principios_libro = None
            /\ state.debug_info.principles_without_citations = model_dump(loc.chain_result)

C4_Witness ==
    /\ pc = "route_after_extract"
    /\ loc.chain_result \in PrincipiosExtraidos
    /\ loc.chain_result.citas_fuente = <<>>
    /\ loc.chain_result.ECI_recomendados # <<>>

\* C5: a routine stored in rutina_final with step_completed =
\* "routine_generated" has at least one session, every session has at least
\* one exercise, every exercise of tipo "principal" has the RIR and tempo of
\* the principles, every recommended ECI name is the name of an exercise of
\* some session, and no session is longer than the profile's
\* preferencias_logistica.duracion_sesion_min (60 when unset).
C5_StoredRoutineValid ==
    state.step_completed = "routine_generated" =>
        LET rutina == state.rutina_final
            principios == state.principios_libro
            perfil == state.perfil_usuario
            limite == IF perfil.preferencias_logistica = Absent THEN 60
                      ELSE IF perfil.preferencias_logistica.duracion_sesion_min = Absent
                      THEN 60
                      ELSE perfil.preferencias_logistica.duracion_sesion_min.n
        IN  /\ rutina.kind = "RutinaActiva"
            /\ Len(rutina.sesiones) >= 1
            /\ \A i \in 1..Len(rutina.sesiones) :
                  LET sesion == rutina.sesiones[i]
                  IN  /\ Len(sesion.ejercicios) >= 1
                      /\ sesion.duracion_estimada_min <= limite
                      /\ \A j \in 1..Len(sesion.ejercicios) :
                            sesion.ejercicios[j].tipo = "principal" =>
                                /\ sesion.ejercicios[j].RIR = principios.intensidad_RIR
                                /\ sesion.ejercicios[j].tempo = principios.cadencia_tempo
            /\ \A k \in 1..Len(principios.ECI_recomendados) :
                  \E i \in 1..Len(rutina.sesiones) :
                     \E j \in 1..Len(rutina.sesiones[i].ejercicios) :
                        rutina.sesiones[i].ejercicios[j].nombre =
                            principios.ECI_recomendados[k].nombre_ejercicio

C5_Witness ==
    /\ state.step_completed = "routine_generated"
    /\ state.principios_libro.ECI_recomendados # <<>>
    /\ Len(state.rutina_final.sesiones) = 2
    /\ \E i \in 1..2 : \E j \in 1..Len(state.rutina_final.sesiones[i].ejercicios) :
          state.rutina_final.sesiones[i].ejercicios[j].tipo = "principal"
    /\ state.perfil_usuario.preferencias_logistica = Dict(IntV(90))

\* C6: in one execution of generate_routine the chain is invoked at most
\* 3 times: an invocation is about to happen only when fewer than 3 were
\* made, the chain is invoked again only after an invocation raised and
\* fewer than 3 attempts were made, and never after one succeeded.
C6_AtMostThreeInvocations ==
    /\ [](pc = "generate_routine_attempt" => loc.attempt < 3)
    /\ [][(pc = "generate_routine_attempt" /\ pc' = "generate_routine_attempt") =>
            /\ loc'.attempt = loc.attempt + 1
            /\ loc'.attempt < 3
            /\ loc'.last_exception # NoException
            /\ state'.rutina_final = None
            /\ state' = state]_vars
    /\ [][(pc = "generate_routine_attempt" /\ state'.rutina_final # state.rutina_final) =>
            pc' = "route_after_generate"]_vars

C6_Witness ==
    /\ pc = "generate_routine_attempt"
    /\ loc.attempt = 2
    /\ loc.last_exception.cls = "OutputParserException"

\* C7: when save_routine returns after an I/O failure that happened once
\* the backup existed, and the restoring write succeeded, the profile file
\* holds exactly the content read at the start of the step, error is set
\* and step_completed is not "saved".
C7_RestoredAfterFailure ==
    (/\ pc = "END"
     /\ loc.node = "save_routine"
     /\ loc.backup = "full"
     /\ Truthy(state.error)
     /\ ~IsSubstring(<<L("advertencia: no se pudo restaurar el backup: ")>>,
                     lower(state.error.toks))) =>
        /\ users_dir[state.user_id] = loc.original_content
        /\ state.step_completed # "saved"

C7_Witness ==
    /\ pc = "END"
    /\ loc.node = "save_routine"
    /\ loc.backup = "full"
    /\ Truthy(state.error)
    /\ IsSubstring(VerificationFailed, state.error.toks)
    /\ users_dir[state.user_id] = loc.original_content
    /\ loc.user_data # json_loads(loc.original_content)

\* C8: in every state of save_routine (a crash inside the step included)
\* and after it, if the profile file's content differs from the content
\* read at the start of the step, a backup holding that content exists.
C8_BackupBeforeWrite ==
    (/\ loc.node = "save_routine"
     /\ users_dir[state.user_id] # loc.original_content) =>
        loc.original_content \in backups

\* C9: after save_routine returns with step_completed = "saved", the
\* profile file parses to the document read at the start of the step with
\* rutina_activa replaced by the serialized routine (same nombre),
\* updated_at present, and every other key unchanged.
C9_SavedDocument ==
    state.step_completed = "saved" =>
        /\ IsJson(users_dir[state.user_id])
        /\ LET written == json_loads(users_dir[state.user_id])
               original == json_loads(loc.original_content)
           IN  /\ written.rutina_activa = model_dump(state.rutina_final)
               /\ written.rutina_activa.nombre = state.rutina_final.nombre
               /\ written.updated_at # Absent
               /\ DOMAIN written = DOMAIN original
               /\ \A k \in DOMAIN original \ {"rutina_activa", "updated_at"} :
                     written[k] = original[k]

C9_Witness ==
    /\ state.step_completed = "saved"
    /\ json_loads(loc.original_content).rutina_activa = OldRutina
    /\ json_loads(users_dir[state.user_id]).rutina_activa # OldRutina
    /\ json_loads(users_dir[state.user_id]).preferencias_logistica = Dict(IntV(90))

\* C10: a crear_rutina run that ends without error ran load_context,
\* extract_principles, generate_routine, save_routine in that order, ends
\* with step_completed = "saved" and a response containing "guardada", and
\* step_completed took the values context_loaded, principles_extracted,
\* routine_generated, saved in that order.
C10_HappyPath ==
    /\ []((pc = "END" /\ state.request_type = "crear_rutina" /\ state.error = None) =>
            /\ trace = <<"load_context", "extract_principles", "generate_routine",
                         "save_routine">>
            /\ state.step_completed = "saved"
            /\ IsSubstring(<<L("guardada")>>, state.respuesta_usuario))
    /\ [][state'.step_completed # state.step_completed =>
            /\ state'.step_completed = "context_loaded" => state.step_completed = ""
            /\ state'.step_completed = "principles_extracted" =>
                    state.step_completed = "context_loaded"
            /\ state'.step_completed = "routine_generated" =>
                    state.step_completed = "principles_extracted"
            /\ state'.step_completed = "saved" =>
                    state.step_completed = "routine_generated"]_vars

C10_Witness ==
    /\ pc = "END"
    /\ state.request_type = "crear_rutina"
    /\ state.error = None
    /\ state.step_completed = "saved"
    /\ trace = <<"load_context", "extract_principles", "generate_routine", "save_routine">>

\* C11: for a user whose profile file does not exist and a valid request
\* type, only load_context and handle_error run, no profile, backup or
\* history file is created or written, and the run ends with step_completed
\* = "error", perfil_usuario unset and the 'profile not found' response.
C11_MissingProfile ==
    /\ []((/\ state.user_id \in UserIds
           /\ state.request_type \in SeqToSet(VALID_REQUEST_TYPES)
           /\ users_dir[state.user_id] = FileAbsent) =>
            /\ SeqToSet(trace) \subseteq {"load_context", "handle_error"}
            /\ backups = {}
            /\ pc = "END" =>
                /\ trace = <<"load_context", "handle_error">>
                /\ state.step_completed = "error"
                /\ state.perfil_usuario = None
                /\ IsSubstring(<<U("tu perfil de usuario no se encontro en el sistema.")>>,
                               state.respuesta_usuario))
    /\ [][(/\ state.user_id \in UserIds
           /\ state.request_type \in SeqToSet(VALID_REQUEST_TYPES)
           /\ users_dir[state.user_id] = FileAbsent) =>
            /\ users_dir' = users_dir
            /\ historial_dir' = historial_dir
            /\ backups' = backups]_vars

C11_Witness ==
    /\ pc = "END"
    /\ state.user_id \in UserIds
    /\ state.request_type = "registrar_ejercicio"
    /\ users_dir[state.user_id] = FileAbsent
    /\ historial_dir[state.user_id] # FileAbsent
    /\ state.step_completed = "error"

\* C12: once the extraction chain has returned principles without
\* citations, generate_routine and save_routine do not run (the only node
\* that still runs is handle_error), the profile file stays unchanged, and
\* the run ends with step_completed = "error", error containing
\* "Alucinacion detectada" and the citation-verification response.
C12_HallucinationStopsRun ==
    /\ []((/\ loc.node = "extract_principles"
           /\ loc.chain_result \in PrincipiosExtraidos
           /\ loc.chain_result.citas_fuente = <<>>) =>
            /\ SeqToSet(trace) \cap {"generate_routine", "save_routine"} = {}
            /\ pc = "END" =>
                /\ state.step_completed = "error"
                /\ Truthy(state.error)
                /\ IsSubstring(<<U("alucinacion detectada")>>, state.error.toks)
                /\ IsSubstring(<<U("no pude verificar la informacion extraida del libro (faltan citas). no puedo proceder de forma segura.")>>,
                               state.respuesta_usuario))
    /\ [][(/\ loc.node = "extract_principles"
           /\ loc.chain_result \in PrincipiosExtraidos
           /\ loc.chain_result.citas_fuente = <<>>) =>
            /\ trace' \in {trace, Append(trace, "handle_error")}
            /\ users_dir' = users_dir
            /\ backups' = backups]_vars

C12_Witness ==
    /\ pc = "END"
    /\ loc.node = "extract_principles"
    /\ loc.chain_result \in PrincipiosExtraidos
    /\ loc.chain_result.citas_fuente = <<>>
    /\ trace = <<"load_context", "extract_principles", "handle_error">>

C14_RoutingIsPure ==
    /\ [][(pc \in {"route_after_load", "route_after_extract", "route_after_generate"}) =>
            /\ state' = state
            /\ UNCHANGED <<users_dir, backups, historial_dir, current_user_context,
                           loc, trace>>
            /\ pc' = (IF Truthy(state.error) THEN "handle_error"
                      ELSE IF pc = "route_after_extract" THEN "generate_routine"
                      ELSE IF pc = "route_after_generate" THEN "save_routine"
                      ELSE IF state.request_type = "crear_rutina"
                      THEN "extract_principles"
                      ELSE IF state.request_type = "registrar_ejercicio"
                      THEN "call_legacy_register"
                      ELSE IF state.request_type = "consultar_historial"
                      THEN "call_legacy_query"
                      ELSE "no decision without writing error")]_vars
    /\ [][state'.error # state.error =>
            pc \in {"load_context", "extract_principles", "generate_routine",
                    "generate_routine_attempt", "save_routine", "save_backup",
                    "save_write_open", "save_write_dump", "save_verify",
                    "save_restore_open", "save_restore_write",
                    "call_legacy_register", "call_legacy_query"}]_vars

C14_Witness ==
    /\ pc = "call_legacy_query"
    /\ trace = <<"load_context">>
    /\ state.error = None
    /\ state.step_completed = "context_loaded"

\* C15: extract_principles is entered only with a profile holding level and
\* objetivo, generate_routine only with principles that carry at least one
\* citation, save_routine only with a routine of at least one session; so
\* no run ever carries the error of one of their 'input missing' guards.
C15_NodeInputsValid ==
    /\ pc = "extract_principles" =>
          /\ state.perfil_usuario.kind = "dict"
          /\ state.perfil_usuario.level # Absent
          /\ state.perfil_usuario.objetivo # Absent
    /\ pc \in {"generate_routine", "generate_routine_attempt"} =>
          /\ state.principios_libro.kind = "PrincipiosExtraidos"
          /\ state.principios_libro.citas_fuente # <<>>
    /\ (pc = "save_routine" \/ InSaveRoutine) =>
          /\ state.rutina_final.kind = "RutinaActiva"
          /\ Len(state.rutina_final.sesiones) >= 1
    /\ state.error \notin
          {Str(<<U("perfil de usuario no disponible"), L(" para extraer principios.")>>),
           Str(<<U("principios del libro no disponibles para generar rutina.")>>),
           Str(<<U("perfil de usuario no disponible"), L(" para generar rutina.")>>),
           Str(<<U("rutina final vacia"), L(", no se puede guardar.")>>)}

C15_Witness ==
    /\ pc = "save_routine"
    /\ trace = <<"load_context", "extract_principles", "generate_routine">>
    /\ state.rutina_final.kind = "RutinaActiva"
    /\ Len(state.rutina_final.sesiones) = MaxSesiones
    /\ state.error = None

\* C16: no node lets an exception escape: whatever fails inside a node, the
\* node returns (the run moves on to a router or ends) with error set.
C16_NoExceptionEscapes ==
    [][(pc \in {"load_context", "extract_principles", "generate_routine",
                "generate_routine_attempt", "save_routine", "call_legacy_register",
                "call_legacy_query", "handle_error"} \/ InSaveRoutine) =>
            pc' # "RAISED"]_vars

C18_FirstMatchingKey ==
    [][pc = "handle_error" =>
        LET error == IF state.error = None
                     THEN <<U("error desconocido reportado sin mensaje.")>>
                     ELSE state.error.toks
            occurs(k) == IsSubstring(lower(ERROR_MESSAGE_MAP[k][1]), lower(error))
            sentence == SubSeq(state'.respuesta_usuario, 3,
                               Len(state'.respuesta_usuario) - 4)
        IN  /\ \A k \in 1..Len(ERROR_MESSAGE_MAP) :
                  (occurs(k) /\ \A m \in 1..(k - 1) : ~occurs(m)) =>
                      sentence = ERROR_MESSAGE_MAP[k][2]
            /\ (\A k \in 1..Len(ERROR_MESSAGE_MAP) : ~occurs(k)) =>
                  sentence = DEFAULT_ERROR_MESSAGE
            /\ (/\ IsSubstring(<<L("rir inconsistente")>>, lower(error))
                /\ IsSubstring(<<L("validacion fallida")>>, lower(error))) =>
                  sentence = <<U("la rutina generada no respeta el rir recomendado por el libro.")>>
    ]_vars

\* handle_error has answered an error that holds "validacion fallida" ahead
\* of "rir inconsistente" with the message of the earlier table entry
C18_Witness ==
    /\ pc = "END" /\ trace = <<"handle_error">>
    /\ Truthy(state.error)
    /\ IsSubstring(<<L("validacion fallida"), L(": "), L("rir inconsistente")>>,
                   lower(state.error.toks))
    /\ IsSubstring(ERROR_MESSAGE_MAP[1][2], state.respuesta_usuario)

\* C19: the response is a function of error and of the entry step alone:
\* any other state with the same error and the same step gets the response
\* this state got.
C19_ResponseDependsOnErrorAndStep ==
    [][pc = "handle_error" =>
        \A other \in HandleErrorInputs :
            (other.error = state.error /\ other.step_completed = state.step_completed) =>
                handle_error_result(other).respuesta_usuario = state'.respuesta_usuario
    ]_vars

\* handle_error has answered the state of a generation that timed out
C19_Witness ==
    /\ pc = "END" /\ trace = <<"handle_error">>
    /\ state.error = Str(<<U("request timed out.")>>)
    /\ state.request_type = "crear_rutina"
    /\ state.user_message = None
    /\ Head(state.respuesta_usuario) = L("[X] ")
    /\ IsSubstring(<<L("generate_routine_error"), L("')")>>, state.respuesta_usuario)

\* C20: the technical error reaches the response only through the key that
\* matches first: two states whose errors have the same first matching key
\* (or both none) and whose entry step is the same get the same response.
C20_ResponseHidesTechnicalError ==
    [][pc = "handle_error" =>
        LET text(st) == IF st.error = None
                        THEN <<U("error desconocido reportado sin mensaje.")>>
                        ELSE st.error.toks
            keys(st) == {k \in 1..Len(ERROR_MESSAGE_MAP) :
                            IsSubstring(lower(ERROR_MESSAGE_MAP[k][1]), lower(text(st)))}
            first(st) == IF keys(st) = {} THEN 0
                         ELSE CHOOSE k \in keys(st) : \A m \in keys(st) : k <= m
        IN  \A other \in HandleErrorInputs :
                (/\ other.step_completed = state.step_completed
                 /\ first(other) = first(state)) =>
                    handle_error_result(other).respuesta_usuario = state'.respuesta_usuario
    ]_vars

\* handle_error has answered a permission failure reported by save_routine,
\* whose first matching key is the one of the bare system message
C20_Witness ==
    /\ pc = "END" /\ trace = <<"handle_error">>
    /\ Truthy(state.error)
    /\ IsSubstring(<<L("error de archivo guardando")>>, lower(state.error.toks))
    /\ IsSubstring(<<L("permission denied")>>, lower(state.error.toks))
    /\ IsSubstring(ERROR_MESSAGE_MAP[5][2], state.respuesta_usuario)

\* C21: for a request type outside the three recognised ones, load_context
\* reports "Tipo de request desconocido: <type>" whatever the user id and
\* the profile file are (empty id, file missing, corrupt or unreadable),
\* leaves perfil_usuario unset and touches no file; the run then ends with
\* step_completed = "error" and the 'did not understand the action' response.
C21_RequestTypeValidatedFirst ==
    /\ [][(pc = "load_context"
           /\ state.request_type \notin {"crear_rutina", "registrar_ejercicio",
                                         "consultar_historial"}) =>
            /\ state'.error = Str(<<U("tipo de request desconocido"), L(": "),
                                    L(state.request_type)>>)
            /\ state'.perfil_usuario = None
            /\ UNCHANGED <<users_dir, backups, historial_dir>>]_vars
    /\ []((pc = "END"
           /\ state.request_type \notin {"crear_rutina", "registrar_ejercicio",
                                         "consultar_historial"}) =>
            /\ trace = <<"load_context", "handle_error">>
            /\ state.step_completed = "error"
            /\ state.perfil_usuario = None
            /\ IsSubstring(<<U("no entendi que accion deseas realizar.")>>,
                           state.respuesta_usuario))

\* A run with an unknown request type, an empty user id and a corrupt
\* profile file has ended
C21_Witness ==
    /\ pc = "END"
    /\ state.request_type = "unknown"
    /\ state.user_id = ""
    /\ users_dir["u1"] = Garbage("corrupt")
    /\ state.step_completed = "error"
    /\ state.error = Str(<<U("tipo de request desconocido"), L(": "), L("unknown")>>)

\* C22: when load_context has read a profile document that parses, it
\* succeeds (perfil_usuario is the document, step_completed is
\* "context_loaded", error stays unset) exactly when the document holds both
\* level and objetivo; otherwise error is "Perfil incompleto: falta "
\* followed by the missing ones of the two keys, and perfil_usuario stays
\* unset.
C22_RequiredProfileFields ==
    [][(/\ pc = "load_context"
        /\ state.request_type \in SeqToSet(VALID_REQUEST_TYPES)
        /\ state.user_id \in UserIds
        /\ users_dir[state.user_id].kind = "text"
        /\ (Truthy(state'.error) =>
                ~IsSubstring(<<L("error inesperado cargando perfil de '")>>,
                             lower(state'.error.toks)))) =>
        LET doc == users_dir[state.user_id].doc
        IN  IF doc.level # Absent /\ doc.objetivo # Absent
            THEN /\ state'.perfil_usuario = doc
                 /\ state'.step_completed = "context_loaded"
                 /\ state'.error = None
            ELSE /\ state'.error =
                        Str(<<U("perfil incompleto"), L(": falta ")>> \o
                            (IF doc.level = Absent /\ doc.objetivo = Absent
                             THEN <<L("level"), L(", "), L("objetivo")>>
                             ELSE IF doc.level = Absent THEN <<L("level")>>
                             ELSE <<L("objetivo")>>))
                 /\ state'.perfil_usuario = None
                 /\ state'.step_completed # "context_loaded"]_vars

\* load_context has rejected a document that holds level but not objetivo
C22_Witness ==
    /\ pc = "route_after_load"
    /\ state.user_id \in UserIds
    /\ users_dir[state.user_id].kind = "text"
    /\ users_dir[state.user_id].doc.level # Absent
    /\ users_dir[state.user_id].doc.objetivo = Absent
    /\ state.error = Str(<<U("perfil incompleto"), L(": falta "), L("objetivo")>>)

\* C23: when generate_routine returns after its last invocation of the
\* chain raised, rutina_final stays unset and error names the bound of 3
\* attempts followed by the message of the exception raised last; it opens
\* with "LLM no retorno JSON valido" exactly when that exception is an
\* OutputParserException, and with "Error generando rutina" otherwise.
C23_LastExceptionReported ==
    [][(/\ pc = "generate_routine_attempt"
        /\ pc' = "route_after_generate"
        /\ loc'.node = "generate_routine"
        /\ loc'.generated_routine = None) =>
        LET e == loc'.last_exception
            tail == <<L(" despues de "), L("3"), L(" intentos: ")>> \o e.msg
        IN  /\ state'.rutina_final = None
            /\ state'.error =
                  Str((IF e.cls = "OutputParserException"
                       THEN <<U("llm no retorno json valido")>>
                       ELSE <<U("error generando rutina")>>) \o tail)
            /\ (IsSubstring(<<L("llm no retorno json valido")>>,
                            lower(state'.error.toks))
                    <=> e.cls = "OutputParserException")]_vars

\* generate_routine has returned after a connection error followed by a
\* parse failure, and reports the parse failure
C23_Witness ==
    /\ pc = "route_after_generate"
    /\ loc.node = "generate_routine"
    /\ loc.earlier.cls = "APIConnectionError"
    /\ loc.last_exception.cls = "OutputParserException"
    /\ state.rutina_final = None
    /\ Truthy(state.error)
    /\ IsSubstring(<<L("invalid json output: {bad}")>>, lower(state.error.toks))

\* C24: when the chain returned a candidate that breaks a semantic rule (no
\* session, a session without exercises, a principal exercise whose RIR or
\* tempo is not the one of the principles, a session longer than the
\* user's limit (60 minutes when the profile gives none), a recommended ECI
\* left out), generate_routine returns with
\* error "Validacion fallida: <reason>", rutina_final unset and the
\* candidate stored under debug_info["invalid_generated_routine"], without
\* invoking the chain again.
C24_ValidationFailureReported ==
    [][(/\ pc = "generate_routine_attempt"
        /\ loc'.node = "generate_routine"
        /\ loc'.generated_routine # None
        /\ LET rutina == loc'.generated_routine
               principios == state.principios_libro
               preferencias == state.perfil_usuario.preferencias_logistica
               limite == IF preferencias.kind = "dict"
                            /\ preferencias.duracion_sesion_min # Absent
                         THEN preferencias.duracion_sesion_min.n ELSE 60
               idx == ExerciseIndex(rutina)
           IN  \/ rutina.sesiones = <<>>
               \/ \E i \in 1..Len(rutina.sesiones) :
                     \/ rutina.sesiones[i].ejercicios = <<>>
                     \/ /\ preferencias.kind \in {"dict", "absent"}
                        /\ rutina.sesiones[i].duracion_estimada_min > limite
               \/ \E x \in idx :
                     LET ejercicio == rutina.sesiones[x[1]].ejercicios[x[2]]
                     IN  /\ ejercicio.tipo = "principal"
                         /\ \/ ejercicio.RIR # principios.intensidad_RIR
                            \/ ejercicio.tempo # principios.cadencia_tempo
               \/ \E k \in 1..Len(principios.ECI_recomendados) :
                     \A x \in idx :
                        LET ejercicio == rutina.sesiones[x[1]].ejercicios[x[2]]
                        IN  ~(ejercicio.tipo = "ECI"
                              /\ ejercicio.nombre =
                                    principios.ECI_recomendados[k].nombre_ejercicio)) =>
        /\ pc' = "route_after_generate"
        /\ state'.rutina_final = None
        /\ Truthy(state'.error)
        /\ SubSeq(state'.error.toks, 1, 2) = <<U("validacion fallida"), L(": ")>>
        /\ state'.debug_info.kind = "dict"
        /\ state'.debug_info.invalid_generated_routine =
                model_dump(loc'.generated_routine)]_vars

\* C25: when the document read back after the write has a
\* rutina_activa.fecha_creacion other than the routine's, save_routine sets
\* an error to which the table entry "Verificacion de persistencia fallo"
\* applies (not the generic file entry), step_completed is not "saved" and
\* no success response is set.
C25_VerificationFailureIdentified ==
    [][(/\ pc = "save_verify"
        /\ pc' # "CRASHED"
        /\ users_dir'[state.user_id].kind = "text"
        /\ verification_mismatch(json_loads(users_dir'[state.user_id]),
                                 state.rutina_final)) =>
        /\ Truthy(state'.error)
        /\ user_friendly_message(state'.error.toks) =
              <<U("error interno al verificar que la rutina se guardo correctamente.")>>
        /\ state'.step_completed # "saved"
        /\ ~IsSubstring(<<L("guardada")>>, state'.respuesta_usuario)]_vars

\* C26: save_routine handed a state without rutina_final, or without
\* user_id, returns at once with an error saying that the routine is empty
\* (or the user id unavailable for saving it); it sets no response, leaves
\* the profile file as it was and creates no backup.
C26_SaveGuards ==
    [][(pc = "save_routine"
        /\ (state.user_id = "" \/ state.rutina_final \in {None, Absent})) =>
        /\ pc' = "END"
        /\ state'.error =
              (IF state.user_id = ""
               THEN Str(<<U("user id no disponible para guardar rutina.")>>)
               ELSE Str(<<U("rutina final vacia"), L(", no se puede guardar.")>>))
        /\ state'.respuesta_usuario = state.respuesta_usuario
        /\ state'.step_completed # "saved"
        /\ UNCHANGED <<users_dir, backups, historial_dir>>]_vars

\* save_routine has returned for a user with a complete profile file and a
\* state without rutina_final
C26_Witness ==
    /\ pc = "END" /\ trace = <<"save_routine">>
    /\ state.user_id \in UserIds
    /\ state.rutina_final = None
    /\ users_dir[state.user_id].kind = "text"
    /\ backups = {}
    /\ state.error = Str(<<U("rutina final vacia"), L(", no se puede guardar.")>>)

\* C27: whenever generate_routine or save_routine returns with error set,
\* step_completed contains "failed". (Of the step names the nodes write,
\* "save_routine_failed" is the only one that does.)
C27_FailedStepMarker ==
    [][((pc \in {"generate_routine", "generate_routine_attempt", "save_routine"}
            \/ InSaveRoutine)
        /\ pc' \in {"route_after_generate", "END"}
        /\ Truthy(state'.error)) =>
            state'.step_completed = "save_routine_failed"]_vars

\* C28: when the text of a registrar_ejercicio request cannot be parsed into
\* an exercise record, the history file is left as it was and the run ends
\* with a respuesta_usuario that asks the user to rephrase.
C28_UnparseableRegisterText ==
    /\ [][(/\ pc = "call_legacy_register"
           /\ loc'.node = "call_legacy_register"
           /\ loc'.ejercicio_data = None) =>
            historial_dir' = historial_dir]_vars
    /\ []((/\ pc = "END"
           /\ loc.node = "call_legacy_register"
           /\ loc.ejercicio_data = None) =>
            IsSubstring(<<L("no pude entender los detalles de tu ejercicio. puedes refrasearlo?")>>,
                        lower(state.respuesta_usuario)))

C30_ClassifierPriority ==
    [][pc = "main" =>
        LET text == lower(loc.user_input)
            has(kws) == \E kw \in kws : IsSubstring(kw, text)
            consulta == has({<<L("historial")>>, <<L("muestrame")>>,
                             <<L("que "), L("hice")>>, <<L("registro")>>,
                             <<L("pasado")>>, <<L("hice")>>})
            registro == has({<<L("registra")>>, <<L("anota")>>, <<L("ejercicio")>>,
                             <<L("sentadilla")>>, <<L("press")>>, <<L("kg")>>,
                             <<L("peso "), L("muerto")>>})
            rutina == has({<<L("rutina")>>, <<L("crea")>>, <<L("genera")>>,
                           <<L("nueva")>>, <<L("plan")>>, <<L("programa")>>})
        IN  /\ state'.request_type \in {"consultar_historial", "registrar_ejercicio",
                                        "crear_rutina", "unknown"}
            /\ consulta => state'.request_type = "consultar_historial"
            /\ (~consulta /\ registro) => state'.request_type = "registrar_ejercicio"
            /\ (~consulta /\ ~registro /\ rutina) => state'.request_type = "crear_rutina"
            /\ (~consulta /\ ~registro /\ ~rutina) => state'.request_type = "unknown"
            /\ loc.user_input = <<>> => state'.request_type = "unknown"]_vars

\* A line holding keywords of all three types, the one of consultar_historial
\* last and capitalised, has been classified as consultar_historial
C30_Witness ==
    /\ pc = "load_context"
    /\ loc.node = "main"
    /\ loc.user_input = <<U("crea"), L("registra"), U("historial")>>
    /\ state.request_type = "consultar_historial"

----------------------------------------------------------------------------
(* C31 *)

\* C31: the profile file {user_id}.json is written only by save_routine.
\* No step of load_context, extract_principles, generate_routine, handle_error,
\* call_legacy_register or call_legacy_query (or of a routing decision) changes
\* the users directory, and a step that changes it belongs to a run that has
\* entered save_routine; hence a run that never executes save_routine ends with
\* the profile file it started with.
C31_ProfileWrittenOnlyBySaveRoutine ==
    [][/\ (pc \in {"load_context", "route_after_load", "extract_principles",
                   "route_after_extract", "generate_routine",
                   "generate_routine_attempt", "route_after_generate",
                   "handle_error", "call_legacy_register", "call_legacy_query"})
            => users_dir' = users_dir
       /\ (users_dir' # users_dir) =>
            /\ "save_routine" \in SeqToSet(trace)
            /\ InSaveRoutine]_vars

\* A registration has run to its end and stored a record, no save_routine was
\* executed, and the profile file is still the authored one
C31_Witness ==
    /\ pc = "END"
    /\ "call_legacy_register" \in SeqToSet(trace)
    /\ "save_routine" \notin SeqToSet(trace)
    /\ state.step_completed = "call_legacy_register"
    /\ historial_dir["u1"].kind = "text"
    /\ historial_dir["u1"].doc # <<>>
    /\ users_dir["u1"] \in {TextFile("authored", d) : d \in ProfileDocs}

----------------------------------------------------------------------------
(* C32 *)

\* C32: ERROR_MESSAGE_MAP is ordered specific-before-generic. Whenever
\* handle_error translates an error, no key of the table is a case-insensitive
\* substring of a key that appears later in it, and for every key k an error
\* that begins with k gets k's own message in the response.
C32_SpecificBeforeGeneric ==
    [][(pc = "handle_error" /\ state.error.kind = "str") =>
        /\ \A i, j \in 1..Len(ERROR_MESSAGE_MAP) :
              i < j => ~IsSubstring(lower(ERROR_MESSAGE_MAP[i][1]),
                                    lower(ERROR_MESSAGE_MAP[j][1]))
        /\ \A k \in 1..Len(ERROR_MESSAGE_MAP) :
              LET key == lower(ERROR_MESSAGE_MAP[k][1])
                  err == lower(state.error.toks)
              IN  (Len(key) <= Len(err) /\ SubSeq(err, 1, Len(key)) = key) =>
                      IsSubstring(ERROR_MESSAGE_MAP[k][2], state'.respuesta_usuario)]_vars

----------------------------------------------------------------------------
(* C33 *)

\* C33: a timeout aborts the retry loop. When an invocation of the chain fails
\* with a time-out (whatever the attempt number), the execution of
\* generate_routine makes no further invocation: the node returns with error
\* set and rutina_final unset.
C33_TimeoutAbortsRetryLoop ==
    [][(/\ pc = "generate_routine_attempt"
        /\ loc'.node = "generate_routine"
        /\ loc'.last_exception.cls \in {"APITimeoutError", "ReadTimeout"}) =>
            /\ pc' = "route_after_generate"
            /\ Truthy(state'.error)
            /\ ~Truthy(state'.rutina_final)]_vars

----------------------------------------------------------------------------
(* The two routine validators applied to the same routine and principles *)

\* validate_routine_against_principles (rag/models.py): "True" when it
\* returns True, "ValueError" when it raises
validate_routine_against_principles(rutina, principios) ==
    LET ejercicio(ij) == rutina.sesiones[ij[1]].ejercicios[ij[2]]
        rir_errors ==
            {ij \in ExerciseIndex(rutina) :
                /\ ejercicio(ij).tipo = "principal"
                /\ ejercicio(ij).RIR # principios.intensidad_RIR}
        tempo_errors ==
            {ij \in ExerciseIndex(rutina) :
                /\ ejercicio(ij).tipo = "principal"
                /\ ejercicio(ij).tempo # principios.cadencia_tempo}
        eci_names ==
            {principios.ECI_recomendados[k].nombre_ejercicio :
                k \in 1..Len(principios.ECI_recomendados)}
        rutina_ejercicios == {ejercicio(ij).nombre : ij \in ExerciseIndex(rutina)}
        eci_errors == {eci_name \in eci_names : eci_name \notin rutina_ejercicios}
    IN  IF rir_errors # {} \/ tempo_errors # {} \/ eci_errors # {}
        THEN "ValueError"
        ELSE "True"

\* Profiles the routine is validated for: complete, every kind of preferences
ValidatorProfiles ==
    {d \in ProfileDocs : /\ d.level # Absent
                         /\ d.objetivo # Absent
                         /\ d.rutina_activa = Absent}

ValidatorsInit ==
    \E rutina \in RutinaActiva, principios \in PrincipiosExtraidos,
       perfil \in ValidatorProfiles :
        /\ state = [create_initial_state("u1", "crear_rutina") EXCEPT
                        !.perfil_usuario = perfil,
                        !.preferencias_logistica = perfil.preferencias_logistica,
                        !.principios_libro = principios,
                        !.step_completed = "extract_principles"]
        /\ users_dir = [u \in UserIds |-> TextFile("authored", perfil)]
        /\ backups = {}
        /\ historial_dir = [u \in UserIds |-> FileAbsent]
        /\ current_user_context = ""
        /\ pc = "validators"
        /\ loc = [node |-> "validators", generated_routine |-> rutina,
                  validation_error |-> <<>>, against_principles |-> "pending"]
        /\ trace = <<"load_context", "extract_principles">>

\* Both validators are applied to the routine
apply_validators ==
    /\ pc = "validators"
    /\ pc' = "validated"
    /\ loc' = [loc EXCEPT
            !.validation_error =
                validate_generated_routine(loc.generated_routine,
                                           state.principios_libro, state.perfil_usuario),
            !.against_principles =
                validate_routine_against_principles(loc.generated_routine,
                                                    state.principios_libro)]
    /\ UNCHANGED <<state, users_dir, backups, historial_dir, current_user_context, trace>>

ValidatorsNext == apply_validators

SpecValidators == ValidatorsInit /\ [][ValidatorsNext]_vars

----------------------------------------------------------------------------
(* C34 *)

\* C34: the two routine validators agree. For every routine with at least one
\* session, non-empty sessions and durations within the limit, and every
\* principles object, _validate_generated_routine returns no error iff
\* validate_routine_against_principles returns True.
C34_ValidatorsAgree ==
    LET rutina == loc.generated_routine
        limit == duracion_max_min(state.perfil_usuario)
    IN  (/\ pc = "validated"
         /\ rutina.sesiones # <<>>
         /\ \A i \in 1..Len(rutina.sesiones) : rutina.sesiones[i].ejercicios # <<>>
         /\ limit.kind # "raise"
         /\ \A i \in 1..Len(rutina.sesiones) :
                rutina.sesiones[i].duracion_estimada_min <= limit.n) =>
            ((loc.validation_error = <<>>) <=> (loc.against_principles = "True"))

----------------------------------------------------------------------------
(* C35 *)

\* C35: if a registrar_ejercicio run ends with step_completed =
\* "call_legacy_register" and error unset, then the user's history file holds
\* exactly one more record than before the run and respuesta_usuario is the
\* "[OK] Registrado" confirmation: a failure to write the history file is
\* never reported as a successful registration.
C35_SuccessMeansRecorded ==
    [][(/\ pc = "call_legacy_register"
        /\ pc' = "END"
        /\ state'.step_completed = "call_legacy_register"
        /\ ~Truthy(state'.error)) =>
            LET antes == get_historial(historial_dir[state.user_id])
                archivo == historial_dir'[state.user_id]
            IN  /\ IsJson(archivo)
                /\ Len(json_loads(archivo)) = Len(antes) + 1
                /\ Len(state'.respuesta_usuario) >= 2
                /\ state'.respuesta_usuario[1] = L("[OK] ")
                /\ state'.respuesta_usuario[2] = U("registrado: ")]_vars

----------------------------------------------------------------------------
(* C36 *)

\* C36: UserContext.add_to_historial never loses records. Whatever the user's
\* history file was before the call (absent, an empty list, a non-empty list,
\* or not parseable), after the call the file is a list holding every record
\* stored before, in the same order, followed by the new entry.
C36_AddToHistorialKeepsRecords ==
    [][(/\ pc = "call_legacy_register"
        /\ loc'.node = "call_legacy_register"
        /\ loc'.ejercicio_data # None
        /\ loc'.fault \in {"none", "read", "open", "write"}) =>
            LET stored == get_historial(historial_dir[state.user_id])
                archivo == historial_dir'[state.user_id]
            IN  /\ IsJson(archivo)
                /\ Len(json_loads(archivo)) = Len(stored) + 1
                /\ \A i \in 1..Len(stored) : json_loads(archivo)[i] = stored[i]
                /\ json_loads(archivo)[Len(stored) + 1].ejercicio =
                        loc'.ejercicio_data.ejercicio]_vars

----------------------------------------------------------------------------
(* The command-line loop (main.py, main) over several turns *)

Blank == L(" ")

\* str.strip(): the line without leading and trailing blanks
RECURSIVE strip(_)
strip(line) ==
    IF line = <<>> THEN <<>>
    ELSE IF Head(line) = Blank THEN strip(Tail(line))
    ELSE IF line[Len(line)] = Blank THEN strip(SubSeq(line, 1, Len(line) - 1))
    ELSE line

\* str.split(): the words of the line (every piece of a typed line is one
\* word or a blank)
split(line) == SelectSeq(line, LAMBDA t : t # Blank)

\* user_input.lower().startswith("login"): the words of the typed lines whose
\* text begins with "login" are "login" and "loginx"
startswith_login(user_input) ==
    /\ user_input # <<>>
    /\ lower(user_input)[1].txt \in {"login", "loginx"}

\* Line 101: the test that makes the line a login command
login_command(user_input) == startswith_login(user_input)

\* (Config.USERS_DIR / f"{new_user_id}.json").exists()
user_file_exists(new_user_id) ==
    /\ new_user_id \in DOMAIN users_dir
    /\ users_dir[new_user_id].kind # "absent"

\* The active user after a login line (lines 102-115)
login_result(user_id, user_input) ==
    LET parts == split(user_input)
    IN  IF Len(parts) = 2 /\ user_file_exists(parts[2].txt) THEN parts[2].txt
        ELSE user_id

\* The users of the session; "u9" has no profile file
CLIUserIds == {"u1", "u2"}

\* Typed lines: empty and blank lines, logins (well formed, in capitals, for
\* a missing user, without and with two arguments, with a longer first
\* word), exit (also in capitals and followed by a word), a query, a
\* registration and a line with no keyword
CLILines ==
    {<<>>, <<Blank>>,
     <<L("login"), Blank, L("u1")>>,
     <<U("login"), Blank, L("u2")>>,
     <<L("login"), Blank, L("u9")>>,
     <<L("login")>>,
     <<L("login"), Blank, L("u1"), Blank, L("u2")>>,
     <<L("loginx"), Blank, L("u2")>>,
     <<L("exit")>>, <<Blank, U("exit")>>,
     <<L("exit"), Blank, L("hola")>>,
     <<L("historial")>>, <<L("registra")>>, <<L("hola")>>}

\* Graph invocations made so far in the session
Turns == Len(SelectSeq(trace, LAMBDA n : n = "load_context"))

\* One iteration of the loop up to its continue, break or line 127
\* (lines 95-124); loc holds main's locals user_id ("" for None) and the line
main_read_line ==
    /\ pc = "main_input"
    /\ \E line \in CLILines :
         LET user_input == strip(line)
             user_id == loc.user_id
         IN  IF user_input = <<>>
             THEN /\ pc' = "main_input"
                  /\ loc' = [node |-> "main", user_id |-> user_id, user_input |-> line]
             ELSE IF login_command(user_input)
             THEN /\ pc' = "main_input"
                  /\ loc' = [node |-> "main",
                             user_id |-> login_result(user_id, user_input),
                             user_input |-> line]
             ELSE IF lower(user_input) = <<L("exit")>>
             THEN /\ pc' = "EXITED"
                  /\ loc' = [node |-> "main", user_id |-> user_id, user_input |-> line]
             ELSE IF user_id = ""
             THEN /\ pc' = "main_input"
                  /\ loc' = [node |-> "main", user_id |-> user_id, user_input |-> line]
             ELSE /\ Turns < MaxTurns
                  /\ pc' = "main"
                  /\ loc' = [node |-> "main", user_id |-> user_id,
                             user_input |-> user_input]
    /\ UNCHANGED <<state, users_dir, backups, historial_dir, current_user_context, trace>>

\* Lines 139-150: graph.invoke has returned and the response is printed.
\* main's user_id is the one the initial state was created with (no node
\* assigns state["user_id"])
main_show_result ==
    /\ pc = "END"
    /\ pc' = "main_input"
    /\ loc' = [node |-> "main", user_id |-> state.user_id, user_input |-> <<>>]
    /\ UNCHANGED <<state, users_dir, backups, historial_dir, current_user_context, trace>>

CLIHistEntries ==
    [u1 |-> HistEntry(T_OLD, "u1", "sentadilla", 5, 5, 100),
     u2 |-> HistEntry(T_OLD, "u2", "press banca", 3, 10, 80)]

\* The program has started (line 77: user_id = None); both users have a
\* complete profile and each has a history of one record or none
CLIInit ==
    /\ pc = "main_input"
    /\ loc = [node |-> "main", user_id |-> "", user_input |-> <<>>]
    /\ state = create_initial_state("", "")
    /\ \E doc \in ProfileDocs :
          /\ missing_fields(doc) = <<>> /\ doc.rutina_activa = Absent
          /\ doc.preferencias_logistica = Absent
          /\ users_dir = [u \in CLIUserIds |-> TextFile("authored", doc)]
    /\ backups = {}
    /\ \E with \in SUBSET CLIUserIds :
          historial_dir = [u \in CLIUserIds |->
                              IF u \in with THEN TextFile("indent2", <<CLIHistEntries[u]>>)
                              ELSE FileAbsent]
    /\ current_user_context = ""
    /\ trace = <<>>

CLINext ==
    \/ main_read_line
    \/ main_prepare_state
    \/ load_context
    \/ route_after_load
    \/ call_legacy_register
    \/ call_legacy_query
    \/ handle_error
    \/ main_show_result

SpecCLI == CLIInit /\ [][CLINext]_vars

----------------------------------------------------------------------------
(* C37 *)

\* C37: per-user isolation of history across turns. In every turn of a
\* session of register and query requests for different users, the legacy
\* node of a request for user U leaves every other user's history file
\* unchanged; when the tool is invoked the global current-user context equals
\* U; a query answers from U's file alone and writes nothing; and a record
\* appended by a registration goes to U's file and carries U's id.
C37_PerUserIsolation ==
    [][(pc \in {"call_legacy_register", "call_legacy_query"}) =>
        LET user == state.user_id
            invoked ==
                /\ loc'.node = pc
                /\ loc'.fault \in {"none", "read", "open", "write"}
                /\ (pc = "call_legacy_register" => loc'.ejercicio_data # None)
        IN  /\ \A other \in DOMAIN historial_dir \ {user} :
                  historial_dir'[other] = historial_dir[other]
            /\ invoked => current_user_context' = user
            /\ (pc = "call_legacy_query" /\ invoked) =>
                  /\ historial_dir' = historial_dir
                  /\ \E e \in IOErrors :
                        state'.respuesta_usuario =
                            consultar_historial(historial_dir[user], 7, loc'.fault, e)
            /\ (/\ pc = "call_legacy_register"
                /\ invoked
                /\ historial_dir'[user] # historial_dir[user]
                /\ IsJson(historial_dir'[user])) =>
                  LET doc == json_loads(historial_dir'[user])
                  IN  /\ doc # <<>>
                      /\ doc[Len(doc)].user_id = user]_vars

\* u1 registered an exercise in an earlier turn; then u2 logged in and
\* queried: the answer lists u2's record and u2's file is as it was
C37_Witness ==
    /\ pc = "END"
    /\ state.user_id = "u2"
    /\ state.step_completed = "call_legacy_query"
    /\ current_user_context = "u2"
    /\ IsJson(historial_dir["u1"])
    /\ \E i \in 1..Len(json_loads(historial_dir["u1"])) :
          /\ json_loads(historial_dir["u1"])[i].timestamp = T_NOW
          /\ json_loads(historial_dir["u1"])[i].user_id = "u1"
    /\ historial_dir["u2"] = TextFile("indent2", <<CLIHistEntries["u2"]>>)
    /\ IsSubstring(<<L("press banca")>>, state.respuesta_usuario)
    /\ ~IsSubstring(<<L("sentadilla")>>, state.respuesta_usuario)

----------------------------------------------------------------------------
(* C38 *)

\* C38: in the command-line loop the active user changes only through a
\* line "login X" with exactly one argument whose profile file exists at that
\* moment; a login for a missing user or with the wrong number of arguments
\* leaves the active user unchanged; the graph is invoked only while an
\* active user is set, always with that user's id and the classified request
\* type; "exit" ends the loop without invoking the graph, and nothing runs
\* after it.
C38_LoginExitAndInvocation ==
    [][/\ pc # "EXITED"
       /\ (pc = "main_input") =>
            LET words == split(loc'.user_input)
                is_login == words # <<>> /\ lower(words)[1] = L("login")
                accepted == /\ is_login
                            /\ Len(words) = 2
                            /\ user_file_exists(words[2].txt)
            IN  /\ (loc'.user_id # loc.user_id) =>
                      (accepted /\ loc'.user_id = words[2].txt)
                /\ (is_login /\ ~accepted) =>
                      (loc'.user_id = loc.user_id /\ pc' = "main_input")
                /\ (lower(strip(loc'.user_input)) = <<L("exit")>>) =>
                      (pc' = "EXITED" /\ state' = state /\ trace' = trace)
                /\ pc' \in {"main_input", "main", "EXITED"}
       /\ (pc = "main") =>
            /\ pc' = "load_context"
            /\ loc.user_id # ""
            /\ state'.user_id = loc.user_id
            /\ state'.request_type = determinar_request_type(loc.user_input)
       /\ (pc' = "load_context") => pc = "main"]_vars

============================================================================
